---- MODULE Spec2Model ----
(***************************************************************************)
(* BookaDoc: the appointment store (AppointmentService over the MongoDB    *)
(* "appointments" collection), the slot availability resolver and the      *)
(* conversation workflow controller (OrchestratorAgent), as state machines.*)
(*                                                                         *)
(* Dates are day numbers; date d falls on weekday (d + Day0Weekday) % 7    *)
(* with Monday = 0 as in Python's date.weekday().  Times are whole hours.  *)
(* An appointment's id is its position in the collection (ObjectIds are    *)
(* unique and never reused).                                               *)
(***************************************************************************)
EXTENDS Integers, Sequences, FiniteSets, TLC

VARIABLES
    database,       \* app.db.mongodb.database: "none" until connect_to_mongo sets it
    appointments,   \* the appointments collection: a sequence of documents
    callers,        \* the create_appointment coroutines in flight, per caller
    slotsResult,    \* the slots an availability query has just returned to its caller
    mergeIn,        \* patient-info merge: current_info a and extracted partials b, c
    mergeOut,       \* patient-info merge: the merged records
    parseIn,        \* slot selection: the user's message and the presented slots
    parseOut,       \* slot selection: what _parse_slot_selection returned
    conversation_context,  \* the session's durable conversation context
    result,         \* what process_message returned in the session's last turn
    ws_context,     \* the websocket endpoint's durable ConversationContext (its context)
    handling,       \* per websocket connection: the handle_message call it is in
    doctors,        \* the doctors collection
    doctorIn,       \* doctor resolution: the patient info and whether the registry raises
    doctorOut       \* doctor resolution: what find_suitable_doctor returned

svcVars == <<database, appointments, callers, slotsResult>>
mergeVars == <<mergeIn, mergeOut>>
parseVars == <<parseIn, parseOut>>
flowVars == <<conversation_context, result>>
wsVars == <<ws_context, handling>>
doctorVars == <<doctors, doctorIn, doctorOut>>
vars == <<database, appointments, callers, slotsResult, mergeIn, mergeOut, parseIn, parseOut,
          conversation_context, result, ws_context, handling, doctors, doctorIn, doctorOut>>

-----------------------------------------------------------------------------
(* Bounds of the model *)

\* The collection holds at most this many documents.
MaxAppointments == 2
\* Weekday of day 0 (3 = Thursday): days 2 and 3 are the weekend.
Day0Weekday == 3
\* Availability windows asked for are at most this many days long.
MaxNumDays == 3
\* date.today(), as a day number.
Today == 0

-----------------------------------------------------------------------------
(* Program constants *)

CLINIC_OPEN_HOUR == 9
CLINIC_CLOSE_HOUR == 17
\* find_slots_by_preference looks this many days ahead.
FIND_NUM_DAYS == 14
\* The default num_slots of find_slots_by_preference and of the scheduler.
NUM_SLOTS == 5

\* AppointmentStatus
PENDING == "pending"
SCHEDULED == "scheduled"
CONFIRMED == "confirmed"
CANCELLED == "cancelled"
COMPLETED_STATUS == "completed"
AppointmentStatus == {PENDING, SCHEDULED, CONFIRMED, CANCELLED, COMPLETED_STATUS}

\* The coroutines that may run create_appointment at the same time
\* (finalize steps of distinct conversations, REST requests).
Callers == {"c1", "c2"}

\* The (doctor, date, time) keys the callers of the model ask for.
DoctorIds == {"doc-1", "doc-3"}
BookKeys ==
    { [doctor_id |-> "doc-1", date |-> 0, time |-> 9],
      [doctor_id |-> "doc-1", date |-> 1, time |-> 10],
      [doctor_id |-> "doc-3", date |-> 0, time |-> 9] }

-----------------------------------------------------------------------------
(* AppointmentService *)

\* _get_collection: the collection, or None while the database is not set.
get_collection == IF database = "none" THEN "none" ELSE "appointments"

\* The statuses the find_one filter of _is_slot_available matches.
BlockingStatusesConfirmedOnly == {CONFIRMED}
BlockingStatusesWithCancelled == {SCHEDULED, CONFIRMED, CANCELLED}
BlockingStatuses == {SCHEDULED, CONFIRMED}

\* _is_slot_available on a given collection content: False when the collection
\* is None or the query raises (dbError), else whether no document matches.
is_slot_available(docs, appointment_date, appointment_time, doctor_id, dbError) ==
    IF get_collection = "none" THEN FALSE
    ELSE IF dbError THEN FALSE
    ELSE ~ \E i \in DOMAIN docs :
              /\ docs[i].doctor_id = doctor_id
              /\ docs[i].date = appointment_date
              /\ docs[i].time = appointment_time
              /\ docs[i].status \in BlockingStatuses

IdleCaller == [pc |-> "idle"]

\* create_appointment up to its first await: the collection lookup and the
\* availability check (one find_one).
create_appointment_check(p, key, dbError) ==
    /\ callers[p].pc = "idle"
    /\ IF get_collection = "none"
       THEN callers' = [callers EXCEPT ![p] =
                [pc |-> "done", success |-> FALSE,
                 error |-> "MongoDB not connected", appointment_id |-> 0]]
       ELSE IF ~ is_slot_available(appointments, key.date, key.time, key.doctor_id, dbError)
       THEN callers' = [callers EXCEPT ![p] =
                [pc |-> "done", success |-> FALSE,
                 error |-> "Slot already booked", appointment_id |-> 0]]
       ELSE callers' = [callers EXCEPT ![p] = [pc |-> "checked", key |-> key]]
    /\ UNCHANGED <<database, appointments, slotsResult>>

\* create_appointment from the insert_one on: the document is stored with
\* status scheduled, or the insert raises and the call returns a failure.
create_appointment_insert(p, dbError) ==
    /\ callers[p].pc = "checked"
    /\ IF dbError
       THEN /\ callers' = [callers EXCEPT ![p] =
                  [pc |-> "done", success |-> FALSE,
                   error |-> "Failed to create appointment", appointment_id |-> 0]]
            /\ UNCHANGED appointments
       ELSE /\ Len(appointments) < MaxAppointments
            /\ appointments' = Append(appointments,
                  [doctor_id |-> callers[p].key.doctor_id,
                   date |-> callers[p].key.date,
                   time |-> callers[p].key.time,
                   status |-> SCHEDULED])
            /\ callers' = [callers EXCEPT ![p] =
                  [pc |-> "done", success |-> TRUE,
                   error |-> "", appointment_id |-> Len(appointments) + 1]]
    /\ UNCHANGED <<database, slotsResult>>

\* The caller takes the AppointmentResponse; the coroutine is over.
create_appointment_return(p) ==
    /\ callers[p].pc = "done"
    /\ callers' = [callers EXCEPT ![p] = IdleCaller]
    /\ UNCHANGED <<database, appointments, slotsResult>>

\* update_appointment_status: one update_one by id; an unknown id modifies
\* nothing and the call reports a failure.
update_appointment_status(appointment_id, status) ==
    /\ get_collection # "none"
    /\ appointment_id \in DOMAIN appointments
    /\ appointments' = [appointments EXCEPT ![appointment_id].status = status]
    /\ UNCHANGED <<database, callers, slotsResult>>

\* cancel_appointment
cancel_appointment(appointment_id) ==
    update_appointment_status(appointment_id, CANCELLED)

\* date.weekday(): Monday is 0, Sunday is 6.
weekday(d) == (d + Day0Weekday) % 7

\* The doctor_name the callers pass: f"Dr. {doctor.name}" of the sample doctors.
DoctorName(doctor_id) ==
    CASE doctor_id = "doc-1" -> "Dr. Rajesh Kumar"
      [] doctor_id = "doc-2" -> "Dr. Priya Sharma"
      [] doctor_id = "doc-3" -> "Dr. Amit Verma"
      [] doctor_id = "doc-4" -> "Dr. Neha Gupta"
      [] doctor_id = "doc-5" -> "Dr. Sandeep Singh"
      [] OTHER -> "Dr. Smith"

\* AppointmentSlot (its slot_id, a fresh uuid, is left out).
AppointmentSlot(check_date, current_hour, doctor_name, doctor_id) ==
    [date |-> check_date, start_time |-> current_hour,
     end_time |-> (current_hour + 1) % 24,
     doctor_name |-> doctor_name, doctor_id |-> doctor_id, is_available |-> TRUE]

RECURSIVE DaySlots(_, _, _, _, _, _)
\* The while loop of get_available_slots over one day, from current_hour on.
\* errs: the (date, time) lookups at which the store raises.
DaySlots(docs, doctor_id, doctor_name, check_date, current_hour, errs) ==
    IF ~ (current_hour < CLINIC_CLOSE_HOUR) THEN << >>
    ELSE (IF is_slot_available(docs, check_date, current_hour, doctor_id,
                               <<check_date, current_hour>> \in errs)
          THEN << AppointmentSlot(check_date, current_hour, doctor_name, doctor_id) >>
          ELSE << >>)
         \o DaySlots(docs, doctor_id, doctor_name, check_date, current_hour + 1, errs)

RECURSIVE SlotsFromOffset(_, _, _, _, _, _, _)
\* The for loop of get_available_slots from day_offset on.
SlotsFromOffset(docs, doctor_id, doctor_name, start_date, num_days, day_offset, errs) ==
    IF day_offset >= num_days THEN << >>
    ELSE LET check_date == start_date + day_offset
         IN (IF weekday(check_date) >= 5 THEN << >>
             ELSE DaySlots(docs, doctor_id, doctor_name, check_date, CLINIC_OPEN_HOUR, errs))
            \o SlotsFromOffset(docs, doctor_id, doctor_name, start_date, num_days,
                                day_offset + 1, errs)

\* get_available_slots
get_available_slots(docs, doctor_id, doctor_name, start_date, num_days, errs) ==
    SlotsFromOffset(docs, doctor_id, doctor_name, start_date, num_days, 0, errs)

\* str.lower() on the time-of-day words of the model.
Lower(str) ==
    CASE str = "Morning" -> "morning"
      [] str = "Evening" -> "evening"
      [] OTHER -> str

\* The time-of-day filter with noon counted to the morning.
InTimeBucket_noon_in_morning(preferred_time, hour) ==
    \/ Lower(preferred_time) = "morning" /\ 9 <= hour /\ hour <= 12
    \/ Lower(preferred_time) = "afternoon" /\ 12 <= hour /\ hour < 17
    \/ Lower(preferred_time) = "evening" /\ 17 <= hour /\ hour < 20

\* Whether a slot passes the time-of-day filter of find_slots_by_preference.
InTimeBucket(preferred_time, hour) ==
    \/ Lower(preferred_time) = "morning" /\ 9 <= hour /\ hour < 12
    \/ Lower(preferred_time) = "afternoon" /\ 12 <= hour /\ hour < 17
    \/ Lower(preferred_time) = "evening" /\ 17 <= hour /\ hour < 20

RECURSIVE FilterByTime(_, _)
FilterByTime(slots, preferred_time) ==
    IF slots = << >> THEN << >>
    ELSE (IF InTimeBucket(preferred_time, Head(slots).start_time)
          THEN << Head(slots) >> ELSE << >>)
         \o FilterByTime(Tail(slots), preferred_time)

\* all_slots[:num_slots]
Take(seq, n) == SubSeq(seq, 1, IF Len(seq) < n THEN Len(seq) ELSE n)

\* None, for the optional string arguments and fields.
None == "None"

\* find_slots_by_preference; preferred_date is a date, or -1 for None.
find_slots_by_preference(docs, doctor_id, doctor_name, preferred_date, preferred_time, num_slots, errs) ==
    LET start_date == IF preferred_date = -1 THEN Today ELSE preferred_date
        all_slots == get_available_slots(docs, doctor_id, doctor_name, start_date,
                                         FIND_NUM_DAYS, errs)
        filtered == IF preferred_time # None /\ preferred_time # ""
                    THEN FilterByTime(all_slots, preferred_time)
                    ELSE all_slots
    IN Take(filtered, num_slots)

\* The store errors a query of the model may meet: none, or the lookups of some slots.
QueryErrs == { {}, {<<1, 10>>, <<1, 11>>} }
\* The time-of-day preferences the callers of the model pass.
TimePreferences == {None, "morning", "afternoon", "Evening", "night"}

\* No query result is held by a caller.
NoResult == [returned |-> FALSE, slots |-> << >>]

\* A caller asks get_available_slots for a window and is handed the list.
GetAvailableSlots(doctor_id, start_date, num_days, errs) ==
    /\ slotsResult = NoResult
    /\ slotsResult' = [returned |-> TRUE, slots |->
            get_available_slots(appointments, doctor_id, DoctorName(doctor_id),
                                start_date, num_days, errs)]
    /\ UNCHANGED <<database, appointments, callers>>

\* A caller asks find_slots_by_preference and is handed the list; the caller
\* still holds the arguments of its call.
FindSlotsByPreference(doctor_id, preferred_date, preferred_time, errs) ==
    /\ slotsResult = NoResult
    /\ slotsResult' = [returned |-> TRUE, slots |->
            find_slots_by_preference(appointments, doctor_id, DoctorName(doctor_id),
                                     preferred_date, preferred_time, NUM_SLOTS, errs),
            asked |-> [doctor_id |-> doctor_id, preferred_date |-> preferred_date,
                       preferred_time |-> preferred_time, errs |-> errs]]
    /\ UNCHANGED <<database, appointments, callers>>

\* The caller of the query is done with the list.
QueryReturn ==
    /\ slotsResult # NoResult
    /\ slotsResult' = NoResult
    /\ UNCHANGED <<database, appointments, callers>>

\* connect_to_mongo
connect_to_mongo ==
    /\ database = "none"
    /\ database' = "connected"
    /\ UNCHANGED <<appointments, callers, slotsResult>>

\* A pure function of the model that has not been applied.
NotCalled == [called |-> FALSE]

-----------------------------------------------------------------------------
(* Python dicts: functions from a set of keys.  None is "None"; the string *)
(* "null" is the literal the extraction prompt's null marker may come as.  *)

EmptyDict == [k \in {} |-> None]

\* d.get(k, default)
Get(d, k, default) == IF k \in DOMAIN d THEN d[k] ELSE default

\* d[k] = v
Put(d, k, v) == [x \in DOMAIN d \cup {k} |-> IF x = k THEN v ELSE d[x]]

\* d.update(r), {**d, **r}: the entries of r, and those of d under other keys
Update(d, r) == r @@ d

\* F of the value of e, which is computed once.
With(e, F(_)) == CHOOSE r \in { F(v) : v \in {e} } : TRUE

\* bool(value) of an optional string
Truthy(value) == value # None /\ value # ""

-----------------------------------------------------------------------------
(* OrchestratorAgent._gather_info_node: the patient-info merge, and          *)
(* ReceptionistAgent.has_required_info                                       *)

\* A merge in which the "null" marker clears the field it comes for.
MergeNullClears(current_info, extracted) ==
    LET cleared == { k \in DOMAIN extracted : extracted[k] = "null" }
        set == { k \in DOMAIN extracted : Truthy(extracted[k]) /\ extracted[k] # "null" }
    IN [k \in (DOMAIN current_info \ cleared) \cup set |->
            IF k \in set THEN extracted[k] ELSE current_info[k]]

\* updated_info = {**current_info}; for key, value in extracted.items():
\*     if value: updated_info[key] = value
MergeInfo(current_info, extracted) ==
    LET set == { k \in DOMAIN extracted : Truthy(extracted[k]) }
    IN [k \in DOMAIN current_info \cup set |->
            IF k \in set THEN extracted[k] ELSE current_info[k]]

\* A required subset without the reason.
required_fields_without_reason == {"patient_name", "patient_phone"}

required_fields == {"patient_name", "patient_phone", "reason"}

\* ReceptionistAgent.has_required_info
has_required_info(extracted_info) ==
    \A field \in required_fields :
        LET value == Get(extracted_info, field, None)
        IN ~ (~ Truthy(value) \/ value \in {"null", None, ""})

\* The values a patient-info field takes in the model; Absent: no such key.
Absent == "<absent>"
FieldValues == {Absent, None, "", "null", "Aisha Khan", "skin rash"}

\* The dict with the given value per key, the Absent ones left out.
DictOf(f) == [k \in { x \in DOMAIN f : f[x] # Absent } |-> f[k]]

\* current_info records and extracted partials of the model.
CurrentInfos ==
    { DictOf([patient_name |-> n, patient_phone |-> p, reason |-> r]) :
        n \in FieldValues, p \in {Absent, "9876543210"}, r \in FieldValues }
Partials ==
    { DictOf([patient_name |-> n, reason |-> r]) : n \in FieldValues, r \in FieldValues }

MergeInit ==
    /\ mergeIn \in { [called |-> FALSE, a |-> a, b |-> b, c |-> c] :
                       a \in CurrentInfos, b \in Partials, c \in Partials }
    /\ mergeOut = NotCalled

\* The intake step merges b into a, then b again, then c; and, the other
\* way round, first c into b and then the result into a.
ApplyMerge ==
    /\ ~ mergeOut.called
    /\ mergeOut' = [called |-> TRUE,
                    ab |-> MergeInfo(mergeIn.a, mergeIn.b),
                    abb |-> MergeInfo(MergeInfo(mergeIn.a, mergeIn.b), mergeIn.b),
                    ab_c |-> MergeInfo(MergeInfo(mergeIn.a, mergeIn.b), mergeIn.c),
                    a_bc |-> MergeInfo(mergeIn.a, MergeInfo(mergeIn.b, mergeIn.c)),
                    had_required |-> has_required_info(mergeIn.a),
                    has_required |-> has_required_info(MergeInfo(mergeIn.a, mergeIn.b))]
    /\ UNCHANGED <<mergeIn, svcVars, parseVars, flowVars, wsVars, doctorVars>>

-----------------------------------------------------------------------------
(* OrchestratorAgent._parse_slot_selection.  A message is a sequence of    *)
(* one-character strings.                                                  *)

Digits == {"0", "1", "2", "3", "4", "5", "6", "7", "8", "9"}

\* str.isdigit() of one character
isdigit(char) == char \in Digits

\* int(char) of a digit
int(char) ==
    CASE char = "0" -> 0 [] char = "1" -> 1 [] char = "2" -> 2 [] char = "3" -> 3
      [] char = "4" -> 4 [] char = "5" -> 5 [] char = "6" -> 6 [] char = "7" -> 7
      [] char = "8" -> 8 [] char = "9" -> 9

RECURSIVE numbers_of(_)
\* [int(char) for char in user_message if char.isdigit()]
numbers_of(user_message) ==
    IF user_message = << >> THEN << >>
    ELSE (IF isdigit(Head(user_message)) THEN << int(Head(user_message)) >> ELSE << >>)
         \o numbers_of(Tail(user_message))

\* Optional[Dict]: no slot, or the slot.
NoSlot == << >>
Some(slot) == << slot >>

\* _parse_slot_selection: (selected_slot, error_message)
parse_slot_selection(user_message, slots) ==
    IF slots = << >>
    THEN [selected_slot |-> NoSlot, error_message |-> "No slots available to select from."]
    ELSE LET numbers == numbers_of(user_message)
         IN IF numbers = << >>
            THEN [selected_slot |-> NoSlot,
                  error_message |-> "Please enter the number of the slot you'd like to book."]
            ELSE LET slot_num == numbers[1] - 1
                 IN IF 0 <= slot_num /\ slot_num < Len(slots)
                    THEN [selected_slot |-> Some(slots[slot_num + 1]), error_message |-> None]
                    ELSE [selected_slot |-> NoSlot,
                          error_message |-> "Please select a number between 1 and len(slots)."]

\* Messages are at most this long in the model.
MaxMsgLen == 3
\* The characters of the model's messages.
Chars == {"0", "1", "2", "6", "a", " "}

RECURSIVE SeqsUpTo(_, _)
\* The sequences over S of length at most n.
SeqsUpTo(S, n) ==
    IF n = 0 THEN { << >> }
    ELSE LET shorter == SeqsUpTo(S, n - 1)
         IN shorter \cup { Append(m, c) : m \in shorter, c \in S }

\* date.isoformat() and datetime.combine(date, time).isoformat(): the text
\* of a date, and of a date and a time of day.
isoformat_date(d) == [iso |-> "date", day |-> d, hour |-> 0]
isoformat_datetime(d, t) == [iso |-> "datetime", day |-> d, hour |-> t]

\* datetime.fromisoformat: a date-only text reads as midnight of that date.
fromisoformat(text) ==
    [day |-> text.day, hour |-> IF text.iso = "date" THEN 0 ELSE text.hour]

\* datetime.date() and datetime.time()
date_of(dt) == dt.day
time_of(dt) == dt.hour

\* One entry of the scheduler's formatted_slots (slot_id, a fresh uuid, and
\* the display string are left out).
FormattedSlot(slot, specialization) ==
    [doctor_name |-> slot.doctor_name, doctor_id |-> slot.doctor_id,
     date |-> isoformat_date(slot.date),
     time |-> isoformat_datetime(slot.date, slot.start_time),
     doctor_specialization |-> specialization]

\* The slots presented for a free doctor doc-1 from day 0 on.
PresentedSlots(n) ==
    [i \in 1..n |-> FormattedSlot(
        AppointmentSlot(0, CLINIC_OPEN_HOUR + i - 1, DoctorName("doc-1"), "doc-1"),
        "General Physician")]

ParseInit ==
    /\ parseIn \in { [called |-> FALSE, user_message |-> m, slots |-> PresentedSlots(n)] :
                       m \in SeqsUpTo(Chars, MaxMsgLen), n \in 0..NUM_SLOTS }
    /\ parseOut = NotCalled

ParseSlotSelection ==
    /\ ~ parseOut.called
    /\ parseOut' = [called |-> TRUE,
                    ret |-> parse_slot_selection(parseIn.user_message, parseIn.slots)]
    /\ UNCHANGED <<parseIn, svcVars, mergeVars, flowVars, wsVars, doctorVars>>

-----------------------------------------------------------------------------
(* Strings as characters: str.lower, str.strip and the substring test      *)

\* The characters of the strings the model computes on.
Spelling ==
    ("" :> << >>)
    @@ ("null" :> << "n", "u", "l", "l" >>)
    @@ ("yes" :> << "y", "e", "s" >>)
    @@ ("confirm" :> << "c", "o", "n", "f", "i", "r", "m" >>)
    @@ ("ok" :> << "o", "k" >>)
    @@ ("sure" :> << "s", "u", "r", "e" >>)
    @@ ("correct" :> << "c", "o", "r", "r", "e", "c", "t" >>)
    @@ ("right" :> << "r", "i", "g", "h", "t" >>)
    @@ ("yep" :> << "y", "e", "p" >>)
    @@ ("yeah" :> << "y", "e", "a", "h" >>)
    @@ ("y" :> << "y" >>)
    @@ ("no" :> << "n", "o" >>)
    @@ ("nope" :> << "n", "o", "p", "e" >>)
    @@ ("cancel" :> << "c", "a", "n", "c", "e", "l" >>)
    @@ ("different" :> << "d", "i", "f", "f", "e", "r", "e", "n", "t" >>)
    @@ ("change" :> << "c", "h", "a", "n", "g", "e" >>)
    @@ ("n" :> << "n" >>)
    @@ ("OK" :> << "O", "K" >>)
    @@ ("2" :> << "2" >>)
    @@ ("7" :> << "7" >>)
    @@ ("hmm" :> << "h", "m", "m" >>)
    @@ ("no way" :> << "n", "o", " ", "w", "a", "y" >>)
    @@ ("hello" :> << "h", "e", "l", "l", "o" >>)
    @@ ("skin rash" :> << "s", "k", "i", "n", " ", "r", "a", "s", "h" >>)
    @@ ("fever" :> << "f", "e", "v", "e", "r" >>)
    @@ ("heart" :> << "h", "e", "a", "r", "t" >>)
    @@ ("chest pain" :> << "c", "h", "e", "s", "t", " ", "p", "a", "i", "n" >>)
    @@ ("cardiac" :> << "c", "a", "r", "d", "i", "a", "c" >>)
    @@ ("blood pressure" :> << "b", "l", "o", "o", "d", " ", "p", "r", "e", "s", "s", "u", "r", "e" >>)
    @@ ("cholesterol" :> << "c", "h", "o", "l", "e", "s", "t", "e", "r", "o", "l" >>)
    @@ ("skin" :> << "s", "k", "i", "n" >>)
    @@ ("rash" :> << "r", "a", "s", "h" >>)
    @@ ("acne" :> << "a", "c", "n", "e" >>)
    @@ ("eczema" :> << "e", "c", "z", "e", "m", "a" >>)
    @@ ("mole" :> << "m", "o", "l", "e" >>)
    @@ ("hair" :> << "h", "a", "i", "r" >>)
    @@ ("child" :> << "c", "h", "i", "l", "d" >>)
    @@ ("baby" :> << "b", "a", "b", "y" >>)
    @@ ("infant" :> << "i", "n", "f", "a", "n", "t" >>)
    @@ ("kid" :> << "k", "i", "d" >>)
    @@ ("pediatric" :> << "p", "e", "d", "i", "a", "t", "r", "i", "c" >>)
    @@ ("bone" :> << "b", "o", "n", "e" >>)
    @@ ("joint" :> << "j", "o", "i", "n", "t" >>)
    @@ ("fracture" :> << "f", "r", "a", "c", "t", "u", "r", "e" >>)
    @@ ("back pain" :> << "b", "a", "c", "k", " ", "p", "a", "i", "n" >>)
    @@ ("knee" :> << "k", "n", "e", "e" >>)
    @@ ("arthritis" :> << "a", "r", "t", "h", "r", "i", "t", "i", "s" >>)
    @@ ("pregnancy" :> << "p", "r", "e", "g", "n", "a", "n", "c", "y" >>)
    @@ ("gynec" :> << "g", "y", "n", "e", "c" >>)
    @@ ("menstrual" :> << "m", "e", "n", "s", "t", "r", "u", "a", "l" >>)
    @@ ("women" :> << "w", "o", "m", "e", "n" >>)
    @@ ("obstetric" :> << "o", "b", "s", "t", "e", "t", "r", "i", "c" >>)
    @@ ("ear" :> << "e", "a", "r" >>)
    @@ ("nose" :> << "n", "o", "s", "e" >>)
    @@ ("throat" :> << "t", "h", "r", "o", "a", "t" >>)
    @@ ("ent" :> << "e", "n", "t" >>)
    @@ ("sinus" :> << "s", "i", "n", "u", "s" >>)
    @@ ("hearing" :> << "h", "e", "a", "r", "i", "n", "g" >>)
    @@ ("eye" :> << "e", "y", "e" >>)
    @@ ("vision" :> << "v", "i", "s", "i", "o", "n" >>)
    @@ ("glasses" :> << "g", "l", "a", "s", "s", "e", "s" >>)
    @@ ("cataract" :> << "c", "a", "t", "a", "r", "a", "c", "t" >>)
    @@ ("mental" :> << "m", "e", "n", "t", "a", "l" >>)
    @@ ("depression" :> << "d", "e", "p", "r", "e", "s", "s", "i", "o", "n" >>)
    @@ ("anxiety" :> << "a", "n", "x", "i", "e", "t", "y" >>)
    @@ ("stress" :> << "s", "t", "r", "e", "s", "s" >>)
    @@ ("psychiatric" :> << "p", "s", "y", "c", "h", "i", "a", "t", "r", "i", "c" >>)
    @@ ("tooth" :> << "t", "o", "o", "t", "h" >>)
    @@ ("teeth" :> << "t", "e", "e", "t", "h" >>)
    @@ ("dental" :> << "d", "e", "n", "t", "a", "l" >>)
    @@ ("gum" :> << "g", "u", "m" >>)
    @@ ("cavity" :> << "c", "a", "v", "i", "t", "y" >>)
    @@ ("verma" :> << "v", "e", "r", "m", "a" >>)
    @@ ("Rajesh Kumar" :> << "R", "a", "j", "e", "s", "h", " ", "K", "u", "m", "a", "r" >>)
    @@ ("Priya Sharma" :> << "P", "r", "i", "y", "a", " ", "S", "h", "a", "r", "m", "a" >>)
    @@ ("Amit Verma" :> << "A", "m", "i", "t", " ", "V", "e", "r", "m", "a" >>)
    @@ ("Neha Gupta" :> << "N", "e", "h", "a", " ", "G", "u", "p", "t", "a" >>)
    @@ ("Sandeep Singh" :> << "S", "a", "n", "d", "e", "e", "p", " ", "S", "i", "n", "g", "h" >>)

\* The characters of a string.
Spell(s) == Spelling[s]

UPPERCASE == << "A", "B", "C", "D", "E", "F", "G", "H", "I", "J", "K", "L", "M",
               "N", "O", "P", "Q", "R", "S", "T", "U", "V", "W", "X", "Y", "Z" >>
LOWERCASE == << "a", "b", "c", "d", "e", "f", "g", "h", "i", "j", "k", "l", "m",
               "n", "o", "p", "q", "r", "s", "t", "u", "v", "w", "x", "y", "z" >>

\* The lower-case letter of each upper-case one.
ToLower == [c \in { UPPERCASE[i] : i \in DOMAIN UPPERCASE } |->
               LOWERCASE[CHOOSE i \in DOMAIN UPPERCASE : UPPERCASE[i] = c]]

LowerChar(c) == IF c \in DOMAIN ToLower THEN ToLower[c] ELSE c

\* str.lower()
lower(chars) == [i \in DOMAIN chars |-> LowerChar(chars[i])]

RECURSIVE lstrip(_)
lstrip(chars) ==
    IF chars # << >> /\ Head(chars) = " " THEN lstrip(Tail(chars)) ELSE chars

RECURSIVE rstrip(_)
rstrip(chars) ==
    IF chars # << >> /\ chars[Len(chars)] = " "
    THEN rstrip(SubSeq(chars, 1, Len(chars) - 1))
    ELSE chars

\* str.strip()
strip(chars) == rstrip(lstrip(chars))

\* word in message
IsSubstring(word, chars) ==
    \E i \in 0..(Len(chars) - Len(word)) : SubSeq(chars, i + 1, i + Len(word)) = word

-----------------------------------------------------------------------------
(* DoctorService over the doctors collection *)

GENERAL_PHYSICIAN == "General Physician"
CARDIOLOGIST == "Cardiologist"
DERMATOLOGIST == "Dermatologist"
PEDIATRICIAN == "Pediatrician"
ORTHOPEDIC == "Orthopedic"
GYNECOLOGIST == "Gynecologist"
ENT_SPECIALIST == "ENT Specialist"
OPHTHALMOLOGIST == "Ophthalmologist"
PSYCHIATRIST == "Psychiatrist"
DENTIST == "Dentist"

\* The doctors initialize_doctors stores at startup.
sample_doctors ==
    << [doctor_id |-> "doc-1", name |-> "Rajesh Kumar", specialization |-> GENERAL_PHYSICIAN, is_active |-> TRUE],
       [doctor_id |-> "doc-2", name |-> "Priya Sharma", specialization |-> CARDIOLOGIST, is_active |-> TRUE],
       [doctor_id |-> "doc-3", name |-> "Amit Verma", specialization |-> DERMATOLOGIST, is_active |-> TRUE],
       [doctor_id |-> "doc-4", name |-> "Neha Gupta", specialization |-> PEDIATRICIAN, is_active |-> TRUE],
       [doctor_id |-> "doc-5", name |-> "Sandeep Singh", specialization |-> ORTHOPEDIC, is_active |-> TRUE] >>

\* What a find on the doctors collection goes through, in the order the
\* collection holds its documents: nothing while the
\* database is not set or when the query raises (the service catches it).
doctors_found(raises) ==
    IF get_collection = "none" \/ raises THEN << >> ELSE doctors

\* Optional[Doctor]: no doctor, or the first of a list.
NoDoctor == << >>
FirstOf(seq) == SubSeq(seq, 1, IF seq = << >> THEN 0 ELSE 1)

\* get_doctor_by_id
get_doctor_by_id(doctor_id, raises) ==
    LET Matches(doc) == doc.doctor_id = doctor_id
    IN FirstOf(SelectSeq(doctors_found(raises), Matches))

\* get_doctor_by_name: a case-insensitive regex search of the name.
get_doctor_by_name(name, raises) ==
    LET Matches(doc) == /\ IsSubstring(lower(Spell(name)), lower(Spell(doc.name)))
                        /\ doc.is_active
    IN FirstOf(SelectSeq(doctors_found(raises), Matches))

\* get_doctors_by_specialization
get_doctors_by_specialization(specialization, raises) ==
    LET Matches(doc) == doc.specialization = specialization /\ doc.is_active
    IN SelectSeq(doctors_found(raises), Matches)

\* get_all_doctors
get_all_doctors(raises) ==
    LET Matches(doc) == doc.is_active
    IN SelectSeq(doctors_found(raises), Matches)

-----------------------------------------------------------------------------
(* SchedulerAgent *)

\* specialization_keywords, in the order the dict is iterated.
specialization_keywords ==
    << [specialization |-> CARDIOLOGIST, keywords |-> {"heart", "chest pain", "cardiac", "blood pressure", "cholesterol"}],
       [specialization |-> DERMATOLOGIST, keywords |-> {"skin", "rash", "acne", "eczema", "mole", "hair"}],
       [specialization |-> PEDIATRICIAN, keywords |-> {"child", "baby", "infant", "kid", "pediatric"}],
       [specialization |-> ORTHOPEDIC, keywords |-> {"bone", "joint", "fracture", "back pain", "knee", "arthritis"}],
       [specialization |-> GYNECOLOGIST, keywords |-> {"pregnancy", "gynec", "menstrual", "women", "obstetric"}],
       [specialization |-> ENT_SPECIALIST, keywords |-> {"ear", "nose", "throat", "ent", "sinus", "hearing"}],
       [specialization |-> OPHTHALMOLOGIST, keywords |-> {"eye", "vision", "glasses", "cataract"}],
       [specialization |-> PSYCHIATRIST, keywords |-> {"mental", "depression", "anxiety", "stress", "psychiatric"}],
       [specialization |-> DENTIST, keywords |-> {"tooth", "teeth", "dental", "gum", "cavity"}] >>

\* _infer_specialization: the first specialization one of whose keywords
\* occurs in the reason, or None.
infer_specialization(reason) ==
    LET reason_lower == lower(reason)
        hits == { i \in DOMAIN specialization_keywords :
                    \E keyword \in specialization_keywords[i].keywords :
                        IsSubstring(Spell(keyword), reason_lower) }
    IN IF hits = {} THEN None
       ELSE specialization_keywords[CHOOSE i \in hits : \A j \in hits : i <= j].specialization

\* The four registry lookups find_suitable_doctor awaits, each a query of
\* its own, and the lookups that raise when the registry raises throughout.
Lookups == {"by_name", "by_specialization", "general_physician", "all_doctors"}
LookupFaults(raises) == IF raises THEN Lookups ELSE {}

\* find_suitable_doctor; raising: the lookups whose query raises.
find_suitable_doctor(patient_info, raising) ==
    LET doctor_preference == Get(patient_info, "doctor_preference", None)
        reason == lower(Spell(Get(patient_info, "reason", "")))
    IN With(IF Truthy(doctor_preference)
            THEN get_doctor_by_name(doctor_preference, "by_name" \in raising)
            ELSE NoDoctor, LAMBDA preferred :
       IF preferred # NoDoctor THEN preferred
       ELSE With(infer_specialization(reason), LAMBDA specialization :
            With(IF specialization # None
                 THEN get_doctors_by_specialization(specialization, "by_specialization" \in raising)
                 ELSE << >>, LAMBDA specialists :
            IF specialists # << >> THEN FirstOf(specialists)
            ELSE With(get_doctors_by_specialization(GENERAL_PHYSICIAN, "general_physician" \in raising), LAMBDA generalists :
                 IF generalists # << >> THEN FirstOf(generalists)
                 ELSE FirstOf(get_all_doctors("all_doctors" \in raising))))))

\* datetime.strptime(preferred_date, "%Y-%m-%d").date() on the date texts of
\* the model: the day, or nothing when the text does not parse.
strptime_date(text) ==
    CASE text = "2025-01-03" -> << 1 >>
      [] text = "2025-01-06" -> << 4 >>
      [] OTHER -> << >>

\* SchedulerAgent.get_available_slots
scheduler_get_available_slots(docs, patient_info, num_slots, registryRaises, errs) ==
    LET preferred_date == Get(patient_info, "preferred_date", None)
        parsed == IF Truthy(preferred_date) THEN strptime_date(preferred_date) ELSE << >>
        start_date == IF parsed # << >> THEN parsed[1] ELSE Today
        preferred_time == Get(patient_info, "preferred_time", None)
    IN With(find_suitable_doctor(patient_info, LookupFaults(registryRaises)), LAMBDA doctor :
       IF doctor = NoDoctor THEN << >>
       ELSE With(find_slots_by_preference(docs, doctor[1].doctor_id,
                     DoctorName(doctor[1].doctor_id), start_date,
                     preferred_time, num_slots, errs), LAMBDA slots :
            [i \in DOMAIN slots |-> FormattedSlot(slots[i], doctor[1].specialization)]))

\* format_slots_message: the text listing the slots by number.
format_slots_message(slots) ==
    IF slots = << >>
    THEN << "I apologize, but I couldn't find any available slots at the moment." >>
    ELSE << "I found the following available appointments:" >>
         \o [i \in DOMAIN slots |-> slots[i].doctor_name]
         \o << "Which appointment would you like to book?" >>

-----------------------------------------------------------------------------
(* AppointmentService.create_appointment as one call *)

\* A document stored for the hour after the one asked for.
appointment_doc_an_hour_later(doctor_id, appointment_date, appointment_time) ==
    [doctor_id |-> doctor_id, date |-> appointment_date,
     time |-> appointment_time + 1, status |-> SCHEDULED]

\* appointment_doc: the document create_appointment stores.
appointment_doc(doctor_id, appointment_date, appointment_time) ==
    [doctor_id |-> doctor_id, date |-> appointment_date,
     time |-> appointment_time, status |-> SCHEDULED]

\* str(result.inserted_id): the id of the n-th document as text.
ObjectIdStr(n) == ToString(n)

\* create_appointment run from its first line to its return on the
\* collection content docs: the AppointmentResponse and the content after.
\* checkRaises, insertRaises: the store raises at the find_one, at the
\* insert_one.
create_appointment(docs, patient_name, appointment_date, appointment_time, doctor_id, doctor_name, reason, checkRaises, insertRaises) ==
    IF get_collection = "none"
    THEN [success |-> FALSE, error |-> "MongoDB not connected", docs |-> docs]
    ELSE IF ~ is_slot_available(docs, appointment_date, appointment_time, doctor_id, checkRaises)
    THEN [success |-> FALSE, error |-> "Slot already booked", docs |-> docs]
    ELSE IF insertRaises
    THEN [success |-> FALSE, error |-> "Failed to create appointment", docs |-> docs]
    ELSE [success |-> TRUE, error |-> "",
          docs |-> Append(docs, appointment_doc(doctor_id, appointment_date, appointment_time)),
          appointment |->
              [appointment_id |-> ObjectIdStr(Len(docs) + 1),
               patient_name |-> patient_name, doctor_name |-> doctor_name,
               appointment_date |-> appointment_date,
               appointment_time |-> appointment_time,
               reason |-> reason, status |-> SCHEDULED]]

-----------------------------------------------------------------------------
(* ReceptionistAgent and ConfirmationAgent.  A text is the sequence of its *)
(* parts.                                                                  *)

\* A process that answers a failed call with no text at all.
agent_process_silent(raises, content) ==
    IF raises THEN << >> ELSE content

\* BaseAgent.process: the content of the language model's reply as it comes,
\* or the fixed apology when the call raises.
agent_process(raises, content) ==
    IF raises THEN << "I apologize, but I encountered an error. Please try again." >>
    ELSE content

\* An extraction that answers a failure with a name of its own.
extract_information_guessing(extraction) ==
    IF extraction.kind = "raises" THEN [patient_name |-> "John Doe"] ELSE extraction.json

\* extract_information: the JSON the language model returned, or {} when the
\* call or the parsing raises.
extract_information(extraction) ==
    IF extraction.kind = "raises" THEN EmptyDict ELSE extraction.json

\* create_confirmation_message
create_confirmation_message(patient_info, slot) ==
    << "Let me confirm your appointment details:",
       Get(patient_info, "patient_name", None), Get(patient_info, "patient_phone", None),
       slot.doctor_name, slot.doctor_specialization,
       Get(patient_info, "reason", None), "Is this correct?" >>

\* A success message that leaves the appointment id out.
create_success_message_without_id(appointment_details) ==
    << "Your appointment is confirmed!",
       appointment_details.appointment.patient_name,
       appointment_details.appointment.doctor_name,
       appointment_details.appointment.reason >>

\* create_success_message
create_success_message(appointment_details) ==
    << "Your appointment is confirmed!",
       appointment_details.appointment.appointment_id,
       appointment_details.appointment.patient_name,
       appointment_details.appointment.doctor_name,
       appointment_details.appointment.reason >>

\* finalize_appointment: what it returns (nothing, or the appointment
\* details) and the collection content after.  A missing slot or a missing
\* patient field raises inside the try and ends in "return None".  The
\* update_appointment_status coroutine made on success is never awaited, so
\* no status update reaches the store.
finalize_appointment(patient_info, selected_slot, docs, oracle) ==
    LET failed == [ret |-> << >>, docs |-> docs]
    IN IF selected_slot = NoSlot THEN failed
       ELSE LET slot == selected_slot[1]
            IN With(get_doctor_by_id(slot.doctor_id, oracle.registryRaises), LAMBDA doctor :
               IF doctor = NoDoctor THEN failed
               ELSE IF ~ (required_fields \subseteq DOMAIN patient_info) THEN failed
               ELSE With(create_appointment(docs,
                             patient_info["patient_name"],
                             date_of(fromisoformat(slot.date)),
                             time_of(fromisoformat(slot.time)),
                             doctor[1].doctor_id,
                             DoctorName(doctor[1].doctor_id),
                             patient_info["reason"],
                             oracle.checkRaises, oracle.insertRaises), LAMBDA response :
                    IF response.success
                    THEN [ret |-> << [appointment_id |-> response.appointment.appointment_id,
                                      appointment |-> response.appointment] >>,
                          docs |-> response.docs]
                    ELSE failed))

-----------------------------------------------------------------------------
(* OrchestratorAgent.  The workflow state is a dict: a function from its   *)
(* keys.                                                                   *)

\* WorkflowState
START == "start"
GATHERING_INFO == "gathering_info"
FINDING_SLOTS == "finding_slots"
PRESENTING_SLOTS == "presenting_slots"
AWAITING_SELECTION == "awaiting_selection"
CONFIRMING == "confirming"
COMPLETED == "completed"
ERROR == "error"

\* AgentType
RECEPTIONIST == "receptionist"
SCHEDULER == "scheduler"
CONFIRMATION == "confirmation"

MAX_SLOT_SELECTION_ATTEMPTS == 3

\* _gather_info_node.  An extraction that is JSON but not an object makes
\* extracted.items() raise, which the node's except clause answers.
gather_info_node(state, oracle) ==
    LET response == agent_process(oracle.processRaises, oracle.reply)
        extracted == extract_information(oracle.extraction)
        current_info == Get(state, "patient_info", EmptyDict)
    IN IF oracle.extraction.kind = "array"
       THEN Update(state,
               [agent_response |-> << "I'm having trouble processing that. Could you please repeat your information?" >>,
                workflow_state |-> GATHERING_INFO])
       ELSE With(MergeInfo(current_info, extracted), LAMBDA updated_info :
            With(has_required_info(updated_info), LAMBDA has_required :
            Update(state,
               [patient_info |-> updated_info,
                agent_response |-> response,
                current_agent |-> RECEPTIONIST,
                has_required_info |-> has_required,
                workflow_state |-> IF has_required THEN FINDING_SLOTS ELSE GATHERING_INFO])))

\* A slot search that, finding nothing, leaves has_required_info as it is.
find_slots_node_keeping_flag(state, docs, oracle) ==
    With(scheduler_get_available_slots(docs, Get(state, "patient_info", EmptyDict), NUM_SLOTS,
                                       oracle.registryRaises, oracle.errs), LAMBDA slots :
       IF slots = << >>
       THEN Update(state,
               [agent_response |-> << "I'm sorry, I couldn't find any available slots. Would you like to try different preferences?" >>,
                workflow_state |-> GATHERING_INFO])
       ELSE Update(state,
               [available_slots |-> slots,
                workflow_state |-> PRESENTING_SLOTS,
                current_agent |-> SCHEDULER]))

\* _find_slots_node
find_slots_node(state, docs, oracle) ==
    LET patient_info == Get(state, "patient_info", EmptyDict)
    IN With(scheduler_get_available_slots(docs, patient_info, NUM_SLOTS,
                                          oracle.registryRaises, oracle.errs), LAMBDA slots :
       IF slots = << >>
       THEN Update(state,
               [agent_response |-> << "I'm sorry, I couldn't find any available slots. Would you like to try different preferences?" >>,
                workflow_state |-> GATHERING_INFO,
                has_required_info |-> FALSE])
       ELSE Update(state,
               [available_slots |-> slots,
                workflow_state |-> PRESENTING_SLOTS,
                current_agent |-> SCHEDULER]))

\* A presentation that leaves the phase at PRESENTING_SLOTS.
present_slots_node_staying(state) ==
    Update(state,
        [agent_response |-> format_slots_message(Get(state, "available_slots", << >>)),
         workflow_state |-> PRESENTING_SLOTS,
         slot_selection_attempts |-> 0])

\* _present_slots_node
present_slots_node(state) ==
    Update(state,
        [agent_response |-> format_slots_message(Get(state, "available_slots", << >>)),
         workflow_state |-> AWAITING_SELECTION,
         slot_selection_attempts |-> 0])

\* _await_selection_node
await_selection_node(state) ==
    LET user_message == strip(lower(Spell(Get(state, "user_message", ""))))
        slots == Get(state, "available_slots", << >>)
        attempts == Get(state, "slot_selection_attempts", 0)
    IN With(parse_slot_selection(user_message, slots), LAMBDA parsed :
       IF parsed.selected_slot # NoSlot
       THEN Update(state,
               [selected_slot |-> parsed.selected_slot,
                workflow_state |-> CONFIRMING,
                current_agent |-> CONFIRMATION])
       ELSE IF attempts + 1 >= MAX_SLOT_SELECTION_ATTEMPTS
       THEN Update(state,
               [slot_selection_attempts |-> attempts + 1,
                agent_response |-> << "I'm having trouble understanding your selection. Let me show you the available slots again." >>,
                workflow_state |-> PRESENTING_SLOTS])
       ELSE Update(state,
               [slot_selection_attempts |-> attempts + 1,
                agent_response |-> IF Truthy(parsed.error_message)
                                   THEN << parsed.error_message >>
                                   ELSE << "Please select a slot by entering its number (e.g., 1, 2, 3)." >>,
                workflow_state |-> AWAITING_SELECTION]))

\* A confirm step that asks for the confirmation without raising the
\* awaiting_confirmation flag.
confirm_node_not_awaiting(state) ==
    Update(state,
        [agent_response |-> create_confirmation_message(Get(state, "patient_info", EmptyDict),
                                                        Get(state, "selected_slot", NoSlot)[1]),
         workflow_state |-> CONFIRMING,
         current_agent |-> CONFIRMATION])

\* A confirm step that sends the conversation back to the intake.
confirm_node_regathering(state) ==
    LET selected_slot == Get(state, "selected_slot", NoSlot)
        patient_info == Get(state, "patient_info", EmptyDict)
    IN IF selected_slot = NoSlot
       THEN Update(state,
               [agent_response |-> << "I had trouble preparing the confirmation. Please try again." >>,
                workflow_state |-> ERROR])
       ELSE Update(state,
               [agent_response |-> create_confirmation_message(patient_info, selected_slot[1]),
                workflow_state |-> GATHERING_INFO,
                awaiting_confirmation |-> TRUE,
                current_agent |-> CONFIRMATION])

\* _confirm_node; without a selected slot create_confirmation_message raises.
confirm_node(state) ==
    LET selected_slot == Get(state, "selected_slot", NoSlot)
        patient_info == Get(state, "patient_info", EmptyDict)
    IN IF selected_slot = NoSlot
       THEN Update(state,
               [agent_response |-> << "I had trouble preparing the confirmation. Please try again." >>,
                workflow_state |-> ERROR])
       ELSE Update(state,
               [agent_response |-> create_confirmation_message(patient_info, selected_slot[1]),
                workflow_state |-> CONFIRMING,
                awaiting_confirmation |-> TRUE,
                current_agent |-> CONFIRMATION])

\* Confirmation words with a hesitation among them.
confirmations_with_hmm == {"yes", "confirm", "ok", "sure", "correct", "right", "yep", "yeah", "y", "hmm"}
confirmations == {"yes", "confirm", "ok", "sure", "correct", "right", "yep", "yeah", "y"}
\* Rejection words none of which occurs in "no".
rejections_without_no == {"cancel", "different", "change"}
rejections == {"no", "nope", "cancel", "different", "change", "n"}

\* _is_confirmation
is_confirmation(message) == \E word \in confirmations : IsSubstring(Spell(word), message)

\* _is_rejection
is_rejection(message) == \E word \in rejections : IsSubstring(Spell(word), message)

\* A finalize step that reports the booking as made also when it failed.
finalize_node_completing_anyway(state, docs, oracle) ==
    [state |-> Update(state,
                 [agent_response |-> << "Your appointment is confirmed!" >>,
                  workflow_state |-> COMPLETED]),
     docs |-> docs]

\* A finalize step that looks for a rejection word before a confirmation
\* word.
finalize_node_rejection_first(state, docs, oracle) ==
    With(strip(lower(Spell(Get(state, "user_message", "")))), LAMBDA user_message :
    IF is_rejection(user_message)
    THEN [state |-> Update(state,
                       [agent_response |-> << "No problem! Would you like to select a different time slot?" >>,
                        workflow_state |-> AWAITING_SELECTION,
                        awaiting_confirmation |-> FALSE]),
          docs |-> docs]
    ELSE IF is_confirmation(user_message)
    THEN With(finalize_appointment(Get(state, "patient_info", EmptyDict),
                                   Get(state, "selected_slot", NoSlot),
                                   docs, oracle), LAMBDA finalized :
         IF finalized.ret # << >>
         THEN [state |-> Update(state,
                            [agent_response |-> create_success_message(finalized.ret[1]),
                             workflow_state |-> COMPLETED,
                             appointment_id |-> finalized.ret[1].appointment_id]),
               docs |-> finalized.docs]
         ELSE [state |-> Update(state,
                            [agent_response |-> << "I'm sorry, there was an error creating your appointment. Please try again or contact support." >>,
                             workflow_state |-> ERROR]),
               docs |-> finalized.docs])
    ELSE [state |-> Update(state,
                       [agent_response |-> << "I didn't catch that. Please reply 'yes' to confirm or 'no' to choose a different time." >>,
                        workflow_state |-> CONFIRMING]),
          docs |-> docs])

\* A finalize step that forgets the selected slot when the reply is not
\* recognised.
finalize_node_forgetting_selection(state, docs, oracle) ==
    With(strip(lower(Spell(Get(state, "user_message", "")))), LAMBDA user_message :
    IF is_confirmation(user_message) \/ is_rejection(user_message)
    THEN [state |-> Update(state, [workflow_state |-> AWAITING_SELECTION,
                                   awaiting_confirmation |-> FALSE]),
          docs |-> docs]
    ELSE [state |-> Update(state,
                       [agent_response |-> << "I didn't catch that. Please reply 'yes' to confirm or 'no' to choose a different time." >>,
                        workflow_state |-> CONFIRMING,
                        selected_slot |-> NoSlot]),
          docs |-> docs])

\* _finalize_node: the state it returns and the collection content after.
finalize_node(state, docs, oracle) ==
    With(strip(lower(Spell(Get(state, "user_message", "")))), LAMBDA user_message :
    LET is_confirmed == is_confirmation(user_message)
        is_rejected == is_rejection(user_message)
    IN IF is_confirmed
       THEN With(finalize_appointment(Get(state, "patient_info", EmptyDict),
                                      Get(state, "selected_slot", NoSlot),
                                      docs, oracle), LAMBDA finalized :
            IF finalized.ret # << >>
            THEN [state |-> Update(state,
                               [agent_response |-> create_success_message(finalized.ret[1]),
                                workflow_state |-> COMPLETED,
                                appointment_id |-> finalized.ret[1].appointment_id]),
                  docs |-> finalized.docs]
            ELSE [state |-> Update(state,
                               [agent_response |-> << "I'm sorry, there was an error creating your appointment. Please try again or contact support." >>,
                                workflow_state |-> ERROR]),
                  docs |-> finalized.docs])
       ELSE IF is_rejected
       THEN [state |-> Update(state,
                          [agent_response |-> << "No problem! Would you like to select a different time slot?" >>,
                           workflow_state |-> AWAITING_SELECTION,
                           awaiting_confirmation |-> FALSE]),
             docs |-> docs]
       ELSE [state |-> Update(state,
                          [agent_response |-> << "I didn't catch that. Please reply 'yes' to confirm or 'no' to choose a different time." >>,
                           workflow_state |-> CONFIRMING]),
             docs |-> docs])

\* A merge that writes the extracted values into current_info itself: the
\* dict the caller's context holds, as such a merge leaves it.
current_info_after_merging_in_place(current_info, extracted) ==
    MergeInfo(current_info, extracted)

\* The dict current_info, which the state shares with the caller's context,
\* as _gather_info_node leaves it: the node writes the extracted values into
\* updated_info, a copy ({**current_info}), and assigns that to the state.
current_info_after(current_info, extracted) == current_info

\* The context object given to process_message as the call leaves it.
\* _initialize_state reads it with get() into a new dict, the nodes assign to
\* keys of that dict only, and the one nested object a node writes entries
\* into is the patient info of the intake step.
given_context_after(user_message, context, oracle) ==
    IF /\ Get(context, "workflow_state", START) \in {START, GATHERING_INFO}
       /\ oracle.extraction.kind # "array"
       /\ "patient_info" \in DOMAIN context
    THEN [context EXCEPT !["patient_info"] =
             current_info_after(context["patient_info"], extract_information(oracle.extraction))]
    ELSE context

\* _initialize_state
initialize_state(user_message, context) ==
    [user_message |-> user_message,
     conversation_history |-> Get(context, "conversation_history", << >>),
     patient_info |-> Get(context, "patient_info", EmptyDict),
     available_slots |-> Get(context, "available_slots", << >>),
     selected_slot |-> Get(context, "selected_slot", NoSlot),
     workflow_state |-> Get(context, "workflow_state", START),
     current_agent |-> Get(context, "current_agent", RECEPTIONIST),
     has_required_info |-> Get(context, "has_required_info", FALSE),
     awaiting_confirmation |-> Get(context, "awaiting_confirmation", FALSE),
     slot_selection_attempts |-> Get(context, "slot_selection_attempts", 0)]

\* _create_error_state
create_error_state(error_message) ==
    [agent_response |-> << "I apologize, but I encountered an error. Let's start over. What can I help you with today?" >>,
     workflow_state |-> START,
     current_agent |-> RECEPTIONIST,
     error |-> error_message,
     has_required_info |-> FALSE,
     awaiting_confirmation |-> FALSE]

COMPLETED_RESPONSE == << "Your appointment has been confirmed! Is there anything else I can help you with?" >>

\* _route_and_process: the context it returns and the collection content after.
route_and_process(state, docs, oracle) ==
    LET current_state == state["workflow_state"]
    IN IF current_state \in {START, GATHERING_INFO}
       THEN With(gather_info_node(state, oracle), LAMBDA gathered :
            IF Get(gathered, "has_required_info", FALSE)
            THEN With(find_slots_node(gathered, docs, oracle), LAMBDA found :
                 [result |-> IF found["workflow_state"] = PRESENTING_SLOTS
                             THEN present_slots_node(found)
                             ELSE found,
                  docs |-> docs])
            ELSE [result |-> gathered, docs |-> docs])
       ELSE IF current_state = AWAITING_SELECTION
       THEN With(await_selection_node(state), LAMBDA selected :
            [result |-> IF selected["workflow_state"] = CONFIRMING
                        THEN confirm_node(selected)
                        ELSE selected,
             docs |-> docs])
       ELSE IF current_state = CONFIRMING
       THEN With(finalize_node(state, docs, oracle), LAMBDA finalized :
            [result |-> finalized.state, docs |-> finalized.docs])
       ELSE IF current_state = COMPLETED
       THEN [result |-> Update(state, [agent_response |-> COMPLETED_RESPONSE]),
             docs |-> docs]
       ELSE [result |-> create_error_state("Unexpected workflow state"), docs |-> docs]

\* process_message
process_message(user_message, context, docs, oracle) ==
    With(initialize_state(user_message, context), LAMBDA state :
         route_and_process(state, docs, oracle))

-----------------------------------------------------------------------------
(* The caller of the controller: the interactive session of test_agents.py *)
(* keeps one conversation_context and updates it with each turn's result.  *)

\* _init_context
init_context ==
    [messages |-> << >>,
     patient_info |-> EmptyDict,
     available_slots |-> << >>,
     selected_slot |-> NoSlot,
     workflow_state |-> "start",
     current_agent |-> "receptionist",
     has_required_info |-> FALSE,
     awaiting_confirmation |-> FALSE]

\* The JSON object an extraction returns: all six fields, None for null.
Extracted(name, phone, reason, doctor, date, time) ==
    [patient_name |-> name, patient_phone |-> phone, reason |-> reason,
     doctor_preference |-> doctor, preferred_date |-> date, preferred_time |-> time]

\* What the extraction of a turn comes to in the model.
Extractions ==
    { [kind |-> "raises", json |-> EmptyDict],
      [kind |-> "array", json |-> EmptyDict],
      [kind |-> "object", json |-> Extracted("Aisha Khan", None, None, None, None, None)],
      [kind |-> "object", json |-> Extracted("Aisha Khan", "9876543210", "null", None, "2025-01-03", "morning")],
      [kind |-> "object", json |-> Extracted("Aisha Khan", "9876543210", "fever", None, "2025-01-03", "morning")] }

\* The messages a turn is given, by the phase it starts in: the ones the
\* phase's nodes read.  (While information is gathered the text only goes to
\* the extraction, whose outcome the oracle gives.)
Inputs(context) ==
    IF context["workflow_state"] \in {START, GATHERING_INFO} THEN {"hmm"}
    ELSE IF context["workflow_state"] = AWAITING_SELECTION THEN {"2", "7", "hmm"}
    ELSE IF context["workflow_state"] = CONFIRMING THEN {"yes", "no", "OK", "hmm", "no way"}
    ELSE {"yes", "2", "hmm"}

\* No collaborator fails.
NoFault ==
    [processRaises |-> FALSE, reply |-> << "(the receptionist's reply)" >>,
     extraction |-> [kind |-> "raises", json |-> EmptyDict],
     registryRaises |-> FALSE, errs |-> {}, checkRaises |-> FALSE, insertRaises |-> FALSE]

\* The collaborators' behaviours a turn can meet, by the phase it starts
\* in: at most one of the collaborators the phase's nodes call fails.
Oracles(context) ==
    IF context["workflow_state"] \in {START, GATHERING_INFO}
    THEN { [fault EXCEPT !.extraction = ex] :
             fault \in { NoFault,
                         [NoFault EXCEPT !.processRaises = TRUE],
                         [NoFault EXCEPT !.registryRaises = TRUE],
                         [NoFault EXCEPT !.errs = {<<1, 10>>, <<1, 11>>}] },
             ex \in Extractions }
    ELSE IF context["workflow_state"] = CONFIRMING
    THEN { NoFault,
           [NoFault EXCEPT !.registryRaises = TRUE],
           [NoFault EXCEPT !.checkRaises = TRUE],
           [NoFault EXCEPT !.insertRaises = TRUE] }
    ELSE { NoFault }

\* No turn has returned to the session.
NoTurn == [called |-> FALSE]

\* process_user_message: one turn of the conversation.
process_user_message(user_input, oracle) ==
    \E out \in { process_message(user_input, conversation_context, appointments, oracle) } :
       /\ Len(out.docs) <= MaxAppointments
       /\ result' = [called |-> TRUE, ret |-> out.result]
       /\ conversation_context' = Update(conversation_context, out.result)
       /\ appointments' = out.docs
       /\ UNCHANGED <<database, callers, slotsResult, mergeVars, parseVars, wsVars, doctorVars>>

\* The /reset command
reset_conversation ==
    /\ conversation_context' = init_context
    /\ result' = NoTurn
    /\ UNCHANGED <<svcVars, mergeVars, parseVars, wsVars, doctorVars>>

\* Another conversation's finalize step books a slot.
other_conversation_books(key) ==
    LET response == create_appointment(appointments, "Ben Ode", key.date, key.time,
                        key.doctor_id, DoctorName(key.doctor_id), "fever", FALSE, FALSE)
    IN /\ response.success
       /\ Len(response.docs) <= MaxAppointments
       /\ appointments' = response.docs
       /\ UNCHANGED <<database, callers, slotsResult, mergeVars, parseVars, flowVars, wsVars, doctorVars>>

-----------------------------------------------------------------------------
(* The websocket endpoint: the other caller of the controller.  It keeps a  *)
(* ConversationContext per conversation, builds the controller's context    *)
(* from it at every message and writes the result back field by field.      *)
(* The messages it sends and the message history, which no step of the      *)
(* controller reads, are left out.                                          *)

\* ConversationState.  GATHERING_INFO, CONFIRMING and COMPLETED have the
\* values of the WorkflowState members of the same names; both are str enums.
INITIATED == "initiated"
CHECKING_AVAILABILITY == "checking_availability"
PROPOSING_SLOTS == "proposing_slots"
FAILED == "failed"

\* The names of the members of WorkflowState.
WorkflowStateMembers ==
    {"START", "GATHERING_INFO", "FINDING_SLOTS", "PRESENTING_SLOTS",
     "AWAITING_SELECTION", "CONFIRMING", "COMPLETED", "ERROR"}

\* What a call returns when the exception of this name leaves it.
AttributeError == "AttributeError"

\* _map_conversation_state_to_workflow
map_conversation_state_to_workflow(state) ==
    LET mapping == (INITIATED :> START) @@ (GATHERING_INFO :> GATHERING_INFO)
                   @@ (CHECKING_AVAILABILITY :> FINDING_SLOTS)
                   @@ (PROPOSING_SLOTS :> PRESENTING_SLOTS)
                   @@ (CONFIRMING :> CONFIRMING) @@ (COMPLETED :> COMPLETED)
                   @@ (FAILED :> ERROR)
    IN Get(mapping, state, START)

\* _map_workflow_to_conversation_state.  Its mapping literal names
\* WorkflowState.FINALIZING: building it raises AttributeError when the enum
\* has no such member, before anything is looked up.
map_workflow_to_conversation_state(workflow_state) ==
    LET mapping == (START :> INITIATED) @@ (GATHERING_INFO :> GATHERING_INFO)
                   @@ (FINDING_SLOTS :> CHECKING_AVAILABILITY)
                   @@ (PRESENTING_SLOTS :> PROPOSING_SLOTS)
                   @@ (CONFIRMING :> CONFIRMING) @@ (COMPLETED :> COMPLETED)
                   @@ (ERROR :> FAILED)
    IN IF "FINALIZING" \notin WorkflowStateMembers THEN AttributeError
       ELSE Get(mapping, workflow_state, INITIATED)

\* The patient fields of a ConversationContext.
ContextInfoFields ==
    {"patient_name", "patient_phone", "patient_email", "reason",
     "preferred_date", "preferred_time", "doctor_preference"}

\* ConversationContext(conversation_id=...)
NewContext ==
    [state |-> INITIATED, current_agent |-> RECEPTIONIST,
     patient_name |-> None, patient_phone |-> None, patient_email |-> None,
     reason |-> None, preferred_date |-> None, preferred_time |-> None,
     doctor_preference |-> None,
     proposed_slots |-> << >>, selected_slot_id |-> None, appointment_id |-> None]

\* ConversationContext.has_required_info
context_has_required_info(c) ==
    Truthy(c.patient_name) /\ Truthy(c.patient_phone) /\ Truthy(c.reason)

\* The conversation_context handle_message prepares for the controller.
prepared_context(c) ==
    [messages |-> << >>,
     patient_info |-> [k \in ContextInfoFields |-> c[k]],
     available_slots |-> c.proposed_slots,
     selected_slot |-> NoSlot,
     workflow_state |-> map_conversation_state_to_workflow(c.state),
     current_agent |-> c.current_agent,
     has_required_info |-> context_has_required_info(c),
     awaiting_confirmation |-> (c.state = CONFIRMING)]

\* slot["slot_id"]: the slot's identifier stands for the slot.
SlotId(slot) == <<slot.doctor_id, slot.date, slot.time>>

\* _update_context_from_result, statement by statement: the context as the
\* call leaves it, and whether an exception left the call.
update_context_from_result(c, ret) ==
    LET info == Get(ret, "patient_info", EmptyDict)
        withInfo ==
            IF info # EmptyDict
            THEN [k \in DOMAIN c |->
                    IF k \in ContextInfoFields /\ Truthy(Get(info, k, None))
                    THEN info[k] ELSE c[k]]
            ELSE c
        withSlots ==
            IF Get(ret, "available_slots", << >>) # << >>
            THEN [withInfo EXCEPT !.proposed_slots = ret["available_slots"]]
            ELSE withInfo
        withSelected ==
            IF Get(ret, "selected_slot", NoSlot) # NoSlot
            THEN [withSlots EXCEPT !.selected_slot_id = SlotId(ret["selected_slot"][1])]
            ELSE withSlots
        mapped == map_workflow_to_conversation_state(ret["workflow_state"])
        withState ==
            IF Truthy(Get(ret, "workflow_state", None))
            THEN [withSelected EXCEPT !.state = mapped]
            ELSE withSelected
        withAgent ==
            IF Truthy(Get(ret, "current_agent", None))
            THEN [withState EXCEPT !.current_agent = ret["current_agent"]]
            ELSE withState
    IN IF Truthy(Get(ret, "workflow_state", None)) /\ mapped = AttributeError
       THEN [raised |-> TRUE, context |-> withSelected]
       ELSE [raised |-> FALSE,
             context |-> IF Truthy(Get(ret, "appointment_id", None))
                         THEN [withAgent EXCEPT !.appointment_id = ret["appointment_id"]]
                         ELSE withAgent]

\* handle_message for a "user_message".  An exception that leaves the update
\* or the status mapping is caught by the handler, which goes on with the
\* context as it then is.
handle_user_message(content, oracle) ==
    \E out \in { process_message(content, prepared_context(ws_context), appointments, oracle) } :
    \E updated \in { update_context_from_result(ws_context, out.result) } :
       /\ Len(out.docs) <= MaxAppointments
       /\ result' = [called |-> TRUE, ret |-> out.result]
       /\ appointments' = out.docs
       /\ ws_context' =
            IF updated.raised
               \/ map_workflow_to_conversation_state(out.result["workflow_state"]) = AttributeError
            THEN updated.context
            ELSE IF out.result["workflow_state"] = COMPLETED
            THEN [updated.context EXCEPT !.state = COMPLETED,
                                         !.appointment_id = Get(out.result, "appointment_id", None)]
            ELSE updated.context
       /\ UNCHANGED <<database, callers, slotsResult, mergeVars, parseVars, conversation_context, handling, doctorVars>>

\* handle_message for a "reset_conversation"
handle_reset_conversation ==
    /\ ws_context' = [ws_context EXCEPT !.state = INITIATED, !.current_agent = RECEPTIONIST,
                                        !.patient_name = None, !.patient_phone = None,
                                        !.reason = None]
    /\ result' = NoTurn
    /\ UNCHANGED <<svcVars, mergeVars, parseVars, conversation_context, handling, doctorVars>>

\* The websocket connections opened with the conversation's id.  Each runs
\* websocket_endpoint's loop as a task of its own, and all of them get the
\* one ConversationContext that conversations holds under the id.
Connections == {"ws1", "ws2"}

\* A connection between two messages.
IdleHandler == [pc |-> "idle"]

\* handle_message for a "user_message", up to its await of process_message:
\* the controller's context is prepared from the ConversationContext.
handle_message_prepare(ws, content) ==
    /\ handling[ws].pc = "idle"
    /\ handling' = [handling EXCEPT ![ws] =
                       [pc |-> "processing", content |-> content,
                        conversation_context |-> prepared_context(ws_context)]]
    /\ UNCHANGED <<svcVars, mergeVars, parseVars, flowVars, ws_context, doctorVars>>

\* handle_message from the return of process_message on: the result is
\* written to the ConversationContext as it then is.
handle_message_apply(ws, oracle) ==
    /\ handling[ws].pc = "processing"
    /\ \E out \in { process_message(handling[ws].content, handling[ws].conversation_context,
                                     appointments, oracle) } :
       \E updated \in { update_context_from_result(ws_context, out.result) } :
          /\ Len(out.docs) <= MaxAppointments
          /\ result' = [called |-> TRUE, ret |-> out.result]
          /\ appointments' = out.docs
          /\ ws_context' =
               IF updated.raised
                  \/ map_workflow_to_conversation_state(out.result["workflow_state"]) = AttributeError
               THEN updated.context
               ELSE IF out.result["workflow_state"] = COMPLETED
               THEN [updated.context EXCEPT !.state = COMPLETED,
                                            !.appointment_id = Get(out.result, "appointment_id", None)]
               ELSE updated.context
    /\ handling' = [handling EXCEPT ![ws] = IdleHandler]
    /\ UNCHANGED <<database, callers, slotsResult, mergeVars, parseVars, conversation_context, doctorVars>>

-----------------------------------------------------------------------------
(* The appointment service: its operations one at a time (Spec), and        *)
(* create_appointment run by several callers at once (SpecRace).            *)

SvcInit ==
    /\ database = "none"
    /\ appointments = << >>
    /\ callers = [p \in Callers |-> IdleCaller]
    /\ slotsResult = NoResult

\* No merge and no slot selection under way.
PureIdle ==
    /\ mergeIn = NotCalled /\ mergeOut = NotCalled
    /\ parseIn = NotCalled /\ parseOut = NotCalled

\* The session before its first turn.
FlowInit ==
    /\ conversation_context = init_context
    /\ result = NoTurn

\* The endpoint before the conversation's first message.
WsInit ==
    /\ ws_context = NewContext
    /\ handling = [ws \in Connections |-> IdleHandler]

\* The doctors collection after startup, and no doctor resolution under way.
DoctorIdle ==
    /\ doctors = sample_doctors
    /\ doctorIn = NotCalled /\ doctorOut = NotCalled

Init == SvcInit /\ PureIdle /\ FlowInit /\ WsInit /\ DoctorIdle

\* No operation is under way: every create_appointment and every query has
\* returned to its caller.
Quiet ==
    /\ \A q \in Callers : callers[q].pc = "idle"
    /\ slotsResult = NoResult

\* What the appointment service leaves alone.
SvcFrame == UNCHANGED <<mergeVars, parseVars, flowVars, wsVars, doctorVars>>

Next ==
    \/ connect_to_mongo /\ SvcFrame
    \/ \E p \in Callers, key \in BookKeys, dbError \in BOOLEAN :
          Quiet /\ create_appointment_check(p, key, dbError) /\ SvcFrame
    \/ \E p \in Callers, dbError \in BOOLEAN :
          create_appointment_insert(p, dbError) /\ SvcFrame
    \/ \E p \in Callers : create_appointment_return(p) /\ SvcFrame
    \/ \E id \in 1..MaxAppointments, status \in AppointmentStatus :
          Quiet /\ update_appointment_status(id, status) /\ SvcFrame
    \/ \E id \in 1..MaxAppointments : Quiet /\ cancel_appointment(id) /\ SvcFrame
    \/ \E d \in DoctorIds, start \in {0, 1}, n \in {1, MaxNumDays}, errs \in QueryErrs :
          Quiet /\ GetAvailableSlots(d, start, n, errs) /\ SvcFrame
    \/ \E d \in DoctorIds, pd \in {-1, 1}, pt \in TimePreferences, errs \in QueryErrs :
          Quiet /\ FindSlotsByPreference(d, pd, pt, errs) /\ SvcFrame
    \/ QueryReturn /\ SvcFrame

Spec == Init /\ [][Next]_vars

\* create_appointment run by the callers in any interleaving of their awaits.
RaceNext ==
    \/ connect_to_mongo /\ SvcFrame
    \/ \E p \in Callers, key \in BookKeys, dbError \in BOOLEAN :
          create_appointment_check(p, key, dbError) /\ SvcFrame
    \/ \E p \in Callers, dbError \in BOOLEAN :
          create_appointment_insert(p, dbError) /\ SvcFrame
    \/ \E p \in Callers : create_appointment_return(p) /\ SvcFrame

SpecRace == Init /\ [][RaceNext]_vars

\* The patient-info merge on its own.
InitMerge == SvcInit /\ MergeInit /\ parseIn = NotCalled /\ parseOut = NotCalled /\ FlowInit /\ WsInit /\ DoctorIdle
SpecMerge == InitMerge /\ [][ApplyMerge]_vars

\* Doctor resolution as a function of the patient info, the doctors
\* collection and the lookups that raise.
Preferences == {None, "", "verma", "Priya Sharma", "hello"}
Reasons == {"fever", "skin rash", "heart", "tooth", "child"}

\* Doctors collections: the startup one; without a general physician; with
\* the dermatologist deactivated; reordered with a second dermatologist
\* first deactivated; nobody active; empty.
Registries ==
    { sample_doctors,
      Tail(sample_doctors),
      [sample_doctors EXCEPT ![3].is_active = FALSE],
      << sample_doctors[5],
         [sample_doctors[3] EXCEPT !.is_active = FALSE],
         [sample_doctors[2] EXCEPT !.specialization = DERMATOLOGIST],
         sample_doctors[3],
         sample_doctors[1] >>,
      << sample_doctors[5], sample_doctors[4] >>,
      << [sample_doctors[1] EXCEPT !.is_active = FALSE] >>,
      << >> }

InitDoctor ==
    /\ database \in {"none", "connected"}
    /\ appointments = << >>
    /\ callers = [p \in Callers |-> IdleCaller]
    /\ slotsResult = NoResult
    /\ PureIdle /\ FlowInit /\ WsInit
    /\ doctors \in Registries
    /\ doctorIn \in [called : {TRUE}, doctor_preference : Preferences,
                      reason : Reasons, raising : SUBSET Lookups]
    /\ doctorOut = NotCalled

ApplyFindDoctor ==
    /\ doctorIn.called /\ ~doctorOut.called
    /\ doctorOut' = [called |-> TRUE,
                     doctor |-> find_suitable_doctor(
                         [doctor_preference |-> doctorIn.doctor_preference,
                          reason |-> doctorIn.reason], doctorIn.raising)]
    /\ UNCHANGED <<doctors, doctorIn, svcVars, mergeVars, parseVars, flowVars, wsVars>>

SpecDoctor == InitDoctor /\ [][ApplyFindDoctor]_vars

\* The slot-selection parser on its own.
InitParse == SvcInit /\ ParseInit /\ mergeIn = NotCalled /\ mergeOut = NotCalled /\ FlowInit /\ WsInit /\ DoctorIdle
SpecParse == InitParse /\ [][ParseSlotSelection]_vars

\* A conversation with the controller, turn by turn, while other
\* conversations book.
FlowNext ==
    \/ connect_to_mongo /\ SvcFrame
    \/ \E user_input \in Inputs(conversation_context), oracle \in Oracles(conversation_context) :
          process_user_message(user_input, oracle)
    \/ reset_conversation
    \/ \E key \in BookKeys : other_conversation_books(key)

SpecFlow == Init /\ [][FlowNext]_vars

\* A conversation that has reached the selection or the confirmation
\* dialogue, from then on given only messages that are neither a valid slot
\* number nor a confirmation nor a rejection.
AmbiguousInputs == {"7", "hmm"}

\* The collection content the dialogue starts on.
BookedBefore ==
    { << >> } \cup { << appointment_doc(key.doctor_id, key.date, key.time) >> : key \in BookKeys }

\* The turn that completes the patient's information and presents slots, and
\* after it the turn that selects the second of them.
IntakeTurn(docs) ==
    process_message("hmm", init_context, docs,
        [NoFault EXCEPT !.extraction =
            [kind |-> "object",
             json |-> Extracted("Aisha Khan", "9876543210", "fever", None, "2025-01-03", "morning")]]).result
SelectionTurn(docs) ==
    process_message("2", Update(init_context, IntakeTurn(docs)), docs, NoFault).result

InitAmbiguous ==
    /\ database = "connected"
    /\ appointments \in BookedBefore
    /\ callers = [p \in Callers |-> IdleCaller]
    /\ slotsResult = NoResult
    /\ PureIdle
    /\ WsInit
    /\ DoctorIdle
    /\ \E turns \in { << IntakeTurn(appointments) >>,
                       << IntakeTurn(appointments), SelectionTurn(appointments) >> } :
          /\ conversation_context =
                 IF Len(turns) = 1 THEN Update(init_context, turns[1])
                 ELSE Update(Update(init_context, turns[1]), turns[2])
          /\ result = [called |-> TRUE, ret |-> turns[Len(turns)]]

AmbiguousTurn ==
    \E user_input \in AmbiguousInputs, oracle \in Oracles(conversation_context) :
        process_user_message(user_input, oracle)

SpecAmbiguous == InitAmbiguous /\ [][AmbiguousTurn]_vars

\* The intake on its own: the turns of a conversation for as long as it is in
\* START or GATHERING_INFO, on a store that is connected or not.
InitIntake ==
    /\ database \in {"none", "connected"}
    /\ appointments \in IF database = "none" THEN { << >> } ELSE BookedBefore
    /\ callers = [p \in Callers |-> IdleCaller]
    /\ slotsResult = NoResult
    /\ PureIdle
    /\ FlowInit
    /\ WsInit
    /\ DoctorIdle

\* What the extraction of an intake turn comes to: the session's, and the
\* details arriving one at a time or for another complaint.
IntakeExtractions ==
    Extractions \cup
    { [kind |-> "object", json |-> Extracted(None, "9876543210", None, None, None, None)],
      [kind |-> "object", json |-> Extracted(None, None, "skin rash", None, None, None)],
      [kind |-> "object", json |-> Extracted(None, None, None, None, "2025-01-04", "afternoon")] }

IntakeOracles ==
    { [fault EXCEPT !.extraction = ex] :
        fault \in { NoFault,
                    [NoFault EXCEPT !.reply = << >>],
                    [NoFault EXCEPT !.processRaises = TRUE],
                    [NoFault EXCEPT !.registryRaises = TRUE],
                    [NoFault EXCEPT !.errs = {<<1, 10>>, <<1, 11>>}] },
        ex \in IntakeExtractions }

GatheringTurn ==
    /\ conversation_context["workflow_state"] \in {START, GATHERING_INFO}
    /\ \E user_input \in Inputs(conversation_context), oracle \in IntakeOracles :
          process_user_message(user_input, oracle)

SpecIntake == InitIntake /\ [][GatheringTurn]_vars

\* A conversation over the websocket endpoint.
WsNext ==
    \/ connect_to_mongo /\ SvcFrame
    \/ \E content \in Inputs(prepared_context(ws_context)), oracle \in IntakeOracles :
          handle_user_message(content, oracle)
    \/ handle_reset_conversation

SpecWs == Init /\ [][WsNext]_vars

\* One conversation id opened on several websocket connections.
WsSharedNext ==
    \/ connect_to_mongo /\ SvcFrame
    \/ \E ws \in Connections, content \in Inputs(prepared_context(ws_context)) :
          handle_message_prepare(ws, content)
    \/ \E ws \in Connections :
          /\ handling[ws].pc = "processing"
          /\ \E oracle \in Oracles(handling[ws].conversation_context) :
                handle_message_apply(ws, oracle)

SpecWsShared == Init /\ [][WsSharedNext]_vars

\* Two conversations on the one OrchestratorAgent and the one store, their
\* intake turns interleaved in any order: the session's, and one over the
\* websocket endpoint.
SessionIntakeTurn ==
    /\ conversation_context["workflow_state"] \in {START, GATHERING_INFO}
    /\ \E user_input \in Inputs(conversation_context), oracle \in Oracles(conversation_context) :
          process_user_message(user_input, oracle)

WsIntakeTurn ==
    \E content \in Inputs(prepared_context(ws_context)),
       oracle \in Oracles(prepared_context(ws_context)) :
          handle_user_message(content, oracle)

TwoNext ==
    \/ connect_to_mongo /\ SvcFrame
    \/ SessionIntakeTurn
    \/ WsIntakeTurn

SpecTwo == Init /\ [][TwoNext]_vars

\* A cooperative user with working collaborators.  The user answers what the
\* last reply asked for: the second slot when slots were presented, "yes"
\* when asked to confirm, and otherwise a message with name, phone and reason.
UserReply ==
    IF ~ result.called THEN "hmm"
    ELSE CASE result.ret["workflow_state"] = AWAITING_SELECTION -> "2"
           [] result.ret["workflow_state"] = CONFIRMING -> "yes"
           [] OTHER -> "hmm"

\* What the language model extracts from the user's messages: the details
\* from the message that gives them, nothing from a number or a "yes".
NothingExtracted == [kind |-> "object", json |-> Extracted(None, None, None, None, None, None)]
CoopExtractions ==
    { [kind |-> "object",
       json |-> Extracted("Aisha Khan", "9876543210", reason, None, None, time)] :
         reason \in {"fever", "skin rash"}, time \in {None, "morning", "afternoon"} }
CoopOracles(content) ==
    { [NoFault EXCEPT !.extraction = ex] :
        ex \in IF content = "hmm" THEN CoopExtractions ELSE { NothingExtracted } }

InitCoop ==
    /\ database = "connected"
    /\ appointments \in BookedBefore
    /\ callers = [p \in Callers |-> IdleCaller]
    /\ slotsResult = NoResult
    /\ PureIdle
    /\ FlowInit
    /\ WsInit
    /\ DoctorIdle

\* The conversation is held through the interactive session.
SessionCoopTurn ==
    /\ result = NoTurn \/ conversation_context # init_context
    /\ conversation_context["workflow_state"] # COMPLETED
    /\ \E oracle \in CoopOracles(UserReply) : process_user_message(UserReply, oracle)

\* The conversation is held through the websocket endpoint.
WsCoopTurn ==
    /\ conversation_context = init_context
    /\ ws_context.state # COMPLETED
    /\ \E oracle \in CoopOracles(UserReply) : handle_user_message(UserReply, oracle)

CoopNext == SessionCoopTurn \/ WsCoopTurn

\* Each caller awaits the turn it has started and the user goes on replying.
SpecCoop == InitCoop /\ [][CoopNext]_vars /\ WF_vars(CoopNext)

-----------------------------------------------------------------------------
(* Claims about the appointment service *)

SlotKey(doc) == <<doc.doctor_id, doc.date, doc.time>>
Active(doc) == doc.status \in {SCHEDULED, CONFIRMED}

\* C1: when callers run create_appointment concurrently for the same
\* (doctor, date, time), at most one of them returns success, and at most
\* one scheduled/confirmed appointment exists for that key afterwards.
\* (Under SpecRace nothing is ever cancelled, so two successes for one key
\* can only come from overlapping calls.)
C1_ConcurrentCreateExclusive ==
    /\ \A p, q \in Callers :
          ( /\ p # q
            /\ callers[p].pc = "done" /\ callers[p].success
            /\ callers[q].pc = "done" /\ callers[q].success )
          => SlotKey(appointments[callers[p].appointment_id])
               # SlotKey(appointments[callers[q].appointment_id])
    /\ \A i, j \in DOMAIN appointments :
          (i # j /\ Active(appointments[i]) /\ Active(appointments[j]))
          => SlotKey(appointments[i]) # SlotKey(appointments[j])

\* Whether the list a query returned offers the slot of document doc.
Offers(slots, doc) ==
    \E k \in DOMAIN slots :
        /\ slots[k].doctor_id = doc.doctor_id
        /\ slots[k].date = doc.date
        /\ slots[k].start_time = doc.time

\* C2 as stated: a query that returns after create_appointment stored an
\* appointment for (D, X, T) offers no slot (D, X, T) as long as that
\* appointment is not cancelled.
C2_BookedSlotHiddenUnlessCancelled ==
    slotsResult.returned =>
        \A i \in DOMAIN appointments :
            appointments[i].status # CANCELLED => ~ Offers(slotsResult.slots, appointments[i])

\* C2 as amended: a query that returns after create_appointment stored an
\* appointment for (D, X, T) offers no slot (D, X, T) as long as that
\* appointment's status is scheduled or confirmed.
C2_BookedSlotHiddenWhileActive ==
    slotsResult.returned =>
        \A i \in DOMAIN appointments :
            Active(appointments[i]) => ~ Offers(slotsResult.slots, appointments[i])

\* C2's case: an active appointment at (D, X, T), and a query for D whose
\* window includes X has returned slots of that day, at other hours.
C2_Witness ==
    /\ slotsResult.returned
    /\ \E i \in DOMAIN appointments :
          /\ Active(appointments[i])
          /\ \E k \in DOMAIN slotsResult.slots :
                /\ slotsResult.slots[k].doctor_id = appointments[i].doctor_id
                /\ slotsResult.slots[k].date = appointments[i].date
                /\ slotsResult.slots[k].start_time # appointments[i].time

\* C3: after any sequence of create_appointment, update_appointment_status
\* and cancel_appointment run one at a time, no (doctor, date, time) has more
\* than one appointment whose status is scheduled or confirmed.
C3_NoDoubleBooking ==
    \A i, j \in DOMAIN appointments :
        (i < j /\ Active(appointments[i]) /\ Active(appointments[j]))
        => SlotKey(appointments[i]) # SlotKey(appointments[j])

-----------------------------------------------------------------------------
(* Claims about the patient-info merge *)

\* C8: the patient-info merge is idempotent and associative:
\* merge(merge(a,b),b) = merge(a,b) and merge(merge(a,b),c) = merge(a,merge(b,c)).
C8_MergeIdempotentAssociative ==
    mergeOut.called =>
        /\ mergeOut.abb = mergeOut.ab
        /\ mergeOut.ab_c = mergeOut.a_bc

\* C8's case: both partials carry a value for a field the record already
\* has, and the merges have been applied.
C8_Witness ==
    /\ mergeOut.called
    /\ \E k \in DOMAIN mergeIn.a \cap DOMAIN mergeIn.b \cap DOMAIN mergeIn.c :
          /\ Truthy(mergeIn.a[k]) /\ Truthy(mergeIn.b[k]) /\ Truthy(mergeIn.c[k])
          /\ mergeIn.b[k] # mergeIn.a[k] /\ mergeIn.c[k] # mergeIn.b[k]
          /\ mergeOut.ab_c[k] = mergeIn.c[k]

\* C9: a field's existing value is replaced if and only if the newly
\* extracted value is non-empty and is not the null sentinel (neither None
\* nor the string "null"); so a known field is never deleted or replaced by
\* a null marker, and has_required_info never goes from true to false
\* because of a merge.
C9_MergeNeverTakesNullMarker ==
    mergeOut.called =>
        /\ \A k \in DOMAIN mergeIn.a \cup DOMAIN mergeIn.b :
              LET new == Get(mergeIn.b, k, None)
              IN IF new \notin {None, "", "null"}
                 THEN k \in DOMAIN mergeOut.ab /\ mergeOut.ab[k] = new
                 ELSE IF k \in DOMAIN mergeIn.a
                      THEN k \in DOMAIN mergeOut.ab /\ mergeOut.ab[k] = mergeIn.a[k]
                      ELSE k \notin DOMAIN mergeOut.ab
        /\ (mergeOut.had_required => mergeOut.has_required)

-----------------------------------------------------------------------------
(* Claims about slot selection *)

RECURSIVE DropNonDigits(_)
DropNonDigits(m) ==
    IF m = << >> \/ isdigit(Head(m)) THEN m ELSE DropNonDigits(Tail(m))

RECURSIVE RunValue(_, _)
\* The number written by the digits m starts with, after the digits read so far.
RunValue(m, acc) ==
    IF m = << >> \/ ~ isdigit(Head(m)) THEN acc
    ELSE RunValue(Tail(m), 10 * acc + int(Head(m)))

\* The first maximal run of consecutive digits of a message, as a number.
FirstDigitRun(m) == RunValue(DropNonDigits(m), 0)

HasDigit(m) == \E i \in DOMAIN m : isdigit(m[i])

\* C10: for every message that contains a digit, _parse_slot_selection
\* takes the first maximal run of consecutive digits as a 1-based number k
\* and selects slots[k-1] when 1 <= k <= len(slots), and nothing otherwise.
C10_SelectsByFirstDigitRun ==
    (parseOut.called /\ HasDigit(parseIn.user_message)) =>
        LET k == FirstDigitRun(parseIn.user_message)
        IN IF 1 <= k /\ k <= Len(parseIn.slots)
           THEN parseOut.ret.selected_slot = Some(parseIn.slots[k])
           ELSE parseOut.ret.selected_slot = NoSlot

-----------------------------------------------------------------------------
(* Claims about the end of a booking: the finalize step and COMPLETED *)

\* The stored appointment a text names as its id, if any.
StoredAs(id) == { i \in DOMAIN appointments : ObjectIdStr(i) = id }

\* text is one of the parts of response.
Contains(response, text) == \E k \in DOMAIN response : response[k] = text

\* The user's reply is one _is_confirmation accepts.
Confirms(user_input) == is_confirmation(strip(lower(Spell(user_input))))

\* Some scheduled or confirmed appointment holds the (doctor, date, time) of
\* a presented slot.
SlotTaken(slot) ==
    \E i \in DOMAIN appointments :
        /\ Active(appointments[i])
        /\ appointments[i].doctor_id = slot.doctor_id
        /\ appointments[i].date = date_of(fromisoformat(slot.date))
        /\ appointments[i].time = time_of(fromisoformat(slot.time))

\* C4: when the user confirms in CONFIRMING and the appointment is created,
\* the finalize step sets its status to confirmed before the turn returns:
\* whenever a turn has ended in COMPLETED, the stored appointment named by
\* appointment_id has status confirmed (not scheduled).
C4_CompletedTurnStoresConfirmed ==
    (result.called /\ result.ret["workflow_state"] = COMPLETED) =>
        /\ "appointment_id" \in DOMAIN conversation_context
        /\ StoredAs(conversation_context["appointment_id"]) # {}
        /\ \A i \in StoredAs(conversation_context["appointment_id"]) :
              appointments[i].status = CONFIRMED

\* C5: in CONFIRMING with a selected slot, a reply of "yes" for which the
\* appointment creation succeeds ends the turn in COMPLETED, with
\* appointment_id the id of the created appointment and a response text that
\* contains that id.
C5_YesWithCreationCompletes ==
    [][ \A oracle \in Oracles(conversation_context) :
          ( /\ conversation_context["workflow_state"] = CONFIRMING
            /\ conversation_context["selected_slot"] # NoSlot
            /\ process_user_message("yes", oracle)
            /\ Len(appointments') = Len(appointments) + 1 )
          => /\ result'.ret["workflow_state"] = COMPLETED
             /\ conversation_context'["workflow_state"] = COMPLETED
             /\ "appointment_id" \in DOMAIN result'.ret
             /\ result'.ret["appointment_id"] = ObjectIdStr(Len(appointments'))
             /\ conversation_context'["appointment_id"] = ObjectIdStr(Len(appointments'))
             /\ Contains(result'.ret["agent_response"], ObjectIdStr(Len(appointments'))) ]_vars

\* C5's case: a turn given "yes" has created the appointment its result
\* names, for the slot the user selected.
C5_Witness ==
    /\ result.called
    /\ {"user_message", "selected_slot"} \subseteq DOMAIN result.ret
    /\ result.ret["user_message"] = "yes"
    /\ result.ret["workflow_state"] = COMPLETED
    /\ "appointment_id" \in DOMAIN result.ret
    /\ \E i \in StoredAs(result.ret["appointment_id"]) :
          /\ appointments[i].doctor_id = result.ret["selected_slot"][1].doctor_id
          /\ appointments[i].time = time_of(fromisoformat(result.ret["selected_slot"][1].time))

\* The booking of a confirming turn fails: the selected slot was booked
\* since it was presented, or the store or the doctor registry raises.
BookingFails(oracle) ==
    \/ SlotTaken(conversation_context["selected_slot"][1])
    \/ oracle.checkRaises
    \/ oracle.insertRaises
    \/ oracle.registryRaises

BOOKING_APOLOGY == << "I'm sorry, there was an error creating your appointment. Please try again or contact support." >>

\* C6: when the user confirms in CONFIRMING but the booking fails (the slot
\* was booked by someone else since it was presented, the store is
\* unavailable, or the doctor is not found), the turn ends in phase ERROR
\* with an apology text, appointment_id stays unset, the phase is not
\* COMPLETED, and the turn adds no appointment record.
C6_FailedBookingEndsInError ==
    [][ \A user_input \in Inputs(conversation_context), oracle \in Oracles(conversation_context) :
          ( /\ conversation_context["workflow_state"] = CONFIRMING
            /\ conversation_context["selected_slot"] # NoSlot
            /\ Confirms(user_input)
            /\ BookingFails(oracle)
            /\ process_user_message(user_input, oracle) )
          => /\ result'.ret["workflow_state"] = ERROR
             /\ result'.ret["agent_response"] = BOOKING_APOLOGY
             /\ "appointment_id" \notin DOMAIN result'.ret
             /\ "appointment_id" \notin DOMAIN conversation_context'
             /\ conversation_context'["workflow_state"] = ERROR
             /\ appointments' = appointments ]_vars

\* C6's case: a confirming turn has ended in ERROR, and the slot it was to
\* book is held by an appointment another conversation stored.
C6_Witness ==
    /\ result.called
    /\ {"user_message", "selected_slot"} \subseteq DOMAIN result.ret
    /\ Confirms(result.ret["user_message"])
    /\ result.ret["workflow_state"] = ERROR
    /\ result.ret["agent_response"] = BOOKING_APOLOGY
    /\ result.ret["selected_slot"] # NoSlot
    /\ SlotTaken(result.ret["selected_slot"][1])

\* C7: once a conversation is in COMPLETED, every further message, whatever
\* its text, returns the same static response, keeps the phase COMPLETED,
\* creates or changes no appointment, and leaves patient info, available
\* slots and appointment id in the returned context equal to what they were
\* before the turn.
C7_CompletedTurnChangesNothing ==
    [][ \A user_input \in Inputs(conversation_context), oracle \in Oracles(conversation_context) :
          ( /\ conversation_context["workflow_state"] = COMPLETED
            /\ process_user_message(user_input, oracle) )
          => /\ result'.ret["agent_response"] = COMPLETED_RESPONSE
             /\ result'.ret["workflow_state"] = COMPLETED
             /\ appointments' = appointments
             /\ result'.ret["patient_info"] = conversation_context["patient_info"]
             /\ result'.ret["available_slots"] = conversation_context["available_slots"]
             /\ "appointment_id" \in DOMAIN result'.ret
             /\ result'.ret["appointment_id"] = conversation_context["appointment_id"] ]_vars

-----------------------------------------------------------------------------
(* Claims about the selection and the confirmation dialogue *)

\* The message is a number written in digits, and its value.
IsNumber(m) == m # << >> /\ \A i \in DOMAIN m : isdigit(m[i])
NumberOf(m) == RunValue(m, 0)

\* C11: in AWAITING_SELECTION with n presented slots, a reply naming a valid
\* number k (1 <= k <= n) records selected_slot = the k-th presented slot,
\* and the same turn ends in CONFIRMING with awaiting_confirmation true and
\* the confirmation summary as the response; the turn creates no appointment.
C11_ValidNumberSelectsAndConfirms ==
    [][ \A user_input \in Inputs(conversation_context), oracle \in Oracles(conversation_context) :
          ( /\ conversation_context["workflow_state"] = AWAITING_SELECTION
            /\ IsNumber(Spell(user_input))
            /\ NumberOf(Spell(user_input)) \in 1..Len(conversation_context["available_slots"])
            /\ process_user_message(user_input, oracle) )
          => LET chosen == conversation_context["available_slots"][NumberOf(Spell(user_input))]
             IN /\ result'.ret["selected_slot"] = Some(chosen)
                /\ conversation_context'["selected_slot"] = Some(chosen)
                /\ result'.ret["workflow_state"] = CONFIRMING
                /\ result'.ret["awaiting_confirmation"] = TRUE
                /\ result'.ret["agent_response"] =
                       create_confirmation_message(conversation_context["patient_info"], chosen)
                /\ appointments' = appointments ]_vars

\* C11's case: the turn given "2" has ended in CONFIRMING on the second of
\* the presented slots, which differs from the first.
C11_Witness ==
    /\ result.called
    /\ {"user_message", "selected_slot"} \subseteq DOMAIN result.ret
    /\ result.ret["user_message"] = "2"
    /\ result.ret["workflow_state"] = CONFIRMING
    /\ Len(result.ret["available_slots"]) >= 2
    /\ result.ret["selected_slot"] = Some(result.ret["available_slots"][2])
    /\ result.ret["available_slots"][2] # result.ret["available_slots"][1]

\* C12: starting in AWAITING_SELECTION with attempt counter 0, three
\* consecutive turns with an unparsable or out-of-range selection end with
\* the phase PRESENTING_SLOTS and the attempt counter reset to 0; after the
\* first and the second of them the phase is still AWAITING_SELECTION with
\* counter 1 and 2.  (Under SpecAmbiguous every turn is such a turn, and the
\* counter is 0 whenever slots have just been presented.)
C12_ThirdFailureResetsCounter ==
    [][ \A user_input \in AmbiguousInputs, oracle \in Oracles(conversation_context) :
          ( /\ conversation_context["workflow_state"] = AWAITING_SELECTION
            /\ process_user_message(user_input, oracle) )
          => LET failed == conversation_context["slot_selection_attempts"] + 1
             IN IF failed < MAX_SLOT_SELECTION_ATTEMPTS
                THEN /\ result'.ret["workflow_state"] = AWAITING_SELECTION
                     /\ result'.ret["slot_selection_attempts"] = failed
                ELSE /\ result'.ret["workflow_state"] = PRESENTING_SLOTS
                     /\ result'.ret["slot_selection_attempts"] = 0 ]_vars

\* The phases _route_and_process has a branch for.
Dispatched == {START, GATHERING_INFO, AWAITING_SELECTION, CONFIRMING, COMPLETED}

\* C13: from AWAITING_SELECTION or CONFIRMING, no sequence of turns made only
\* of unparsable slot selections and unrecognized confirmation replies yields
\* phase ERROR, sets the error field, or resets the conversation to START
\* through the unexpected-phase branch: every phase the controller returns
\* after such a turn is one the dispatcher handles on the next turn.
C13_AmbiguousInputNeverErrs ==
    result.called =>
        /\ result.ret["workflow_state"] # ERROR
        /\ "error" \notin DOMAIN result.ret
        /\ result.ret["workflow_state"] \in Dispatched

\* C14: in CONFIRMING, a reply of "no" (a rejection) ends the turn in
\* AWAITING_SELECTION with awaiting_confirmation false, creates no
\* appointment, and leaves the presented slot list unchanged, so that a new
\* number can be chosen on the next turn.
C14_NoReturnsToSelection ==
    [][ \A oracle \in Oracles(conversation_context) :
          ( /\ conversation_context["workflow_state"] = CONFIRMING
            /\ process_user_message("no", oracle) )
          => /\ result'.ret["workflow_state"] = AWAITING_SELECTION
             /\ conversation_context'["workflow_state"] = AWAITING_SELECTION
             /\ result'.ret["awaiting_confirmation"] = FALSE
             /\ conversation_context'["awaiting_confirmation"] = FALSE
             /\ appointments' = appointments
             /\ result'.ret["available_slots"] = conversation_context["available_slots"]
             /\ conversation_context'["available_slots"] = conversation_context["available_slots"] ]_vars

\* C14's case: the turn given "no" has returned to the selection, with the
\* slots still presented and the flag cleared.
C14_Witness ==
    /\ result.called
    /\ "user_message" \in DOMAIN result.ret
    /\ result.ret["user_message"] = "no"
    /\ result.ret["workflow_state"] = AWAITING_SELECTION
    /\ result.ret["awaiting_confirmation"] = FALSE
    /\ result.ret["available_slots"] # << >>
    /\ result.ret["selected_slot"] # NoSlot

-----------------------------------------------------------------------------
(* Claims about the intake and the slot search *)

\* The patient info a gathering turn has after its merge, when the
\* extraction is an object or fails.
InfoAfter(oracle) ==
    MergeInfo(conversation_context["patient_info"], extract_information(oracle.extraction))

\* The intake step of a gathering turn runs to its end and has the required
\* fields.
IntakeCompletes(oracle) ==
    /\ conversation_context["workflow_state"] \in {START, GATHERING_INFO}
    /\ oracle.extraction.kind # "array"
    /\ has_required_info(InfoAfter(oracle))

\* The slots the scheduler finds for a gathering turn.
SlotsFound(oracle) ==
    scheduler_get_available_slots(appointments, InfoAfter(oracle), NUM_SLOTS,
                                  oracle.registryRaises, oracle.errs)

NO_SLOTS_RESPONSE == << "I'm sorry, I couldn't find any available slots. Would you like to try different preferences?" >>

\* C15: when the intake step completes the required fields but slot finding
\* returns zero candidates, the turn ends in GATHERING_INFO with
\* has_required_info false, the patient info kept, no slot list presented,
\* and a non-empty message inviting different preferences.
C15_NoSlotsBackToGathering ==
    [][ \A user_input \in Inputs(conversation_context), oracle \in IntakeOracles :
          ( /\ IntakeCompletes(oracle)
            /\ SlotsFound(oracle) = << >>
            /\ process_user_message(user_input, oracle) )
          => /\ result'.ret["workflow_state"] = GATHERING_INFO
             /\ result'.ret["has_required_info"] = FALSE
             /\ conversation_context'["has_required_info"] = FALSE
             /\ result'.ret["patient_info"] = InfoAfter(oracle)
             /\ conversation_context'["patient_info"] = InfoAfter(oracle)
             /\ result'.ret["available_slots"] = conversation_context["available_slots"]
             /\ result'.ret["agent_response"] = NO_SLOTS_RESPONSE
             /\ result'.ret["agent_response"] # << >> ]_vars

\* C15's case: a turn has ended in GATHERING_INFO with the no-slots message
\* while the patient info it holds has every required field.
C15_Witness ==
    /\ result.called
    /\ result.ret["workflow_state"] = GATHERING_INFO
    /\ result.ret["agent_response"] = NO_SLOTS_RESPONSE
    /\ has_required_info(result.ret["patient_info"])
    /\ result.ret["has_required_info"] = FALSE

\* The context the intake step of a turn returns, and the one the slot search
\* makes of it.
Gathered(user_input, oracle) ==
    gather_info_node(initialize_state(user_input, conversation_context), oracle)

Searched(user_input, oracle) ==
    find_slots_node(Gathered(user_input, oracle), appointments, oracle)

C17_EveryTurnAnswers ==
    result.called
    => /\ "agent_response" \in DOMAIN result.ret
       /\ result.ret["agent_response"] # << >>

\* C18: the message after a turn that ended in ERROR puts the conversation
\* back to START with nothing left in the context the session keeps: no
\* patient info, no available slots, no selected slot, no appointment id, the
\* attempt counter at 0 and both flags false.
C18_MessageAfterErrorResetsAll ==
    [][ \A user_input \in Inputs(conversation_context), oracle \in Oracles(conversation_context) :
          ( /\ conversation_context["workflow_state"] = ERROR
            /\ process_user_message(user_input, oracle) )
          => /\ conversation_context'["workflow_state"] = START
             /\ Get(conversation_context', "patient_info", EmptyDict) = EmptyDict
             /\ Get(conversation_context', "available_slots", << >>) = << >>
             /\ Get(conversation_context', "selected_slot", NoSlot) = NoSlot
             /\ Get(conversation_context', "appointment_id", None) = None
             /\ Get(conversation_context', "slot_selection_attempts", 0) = 0
             /\ conversation_context'["has_required_info"] = FALSE
             /\ conversation_context'["awaiting_confirmation"] = FALSE ]_vars

-----------------------------------------------------------------------------
(* Claims about the websocket endpoint *)

\* The ConversationContext c holds every field of the returned context ret.
Reflects(c, ret) ==
    /\ \A k \in ContextInfoFields : c[k] = Get(Get(ret, "patient_info", EmptyDict), k, None)
    /\ c.proposed_slots = Get(ret, "available_slots", << >>)
    /\ c.selected_slot_id = IF Get(ret, "selected_slot", NoSlot) = NoSlot THEN None
                            ELSE SlotId(ret["selected_slot"][1])
    /\ map_conversation_state_to_workflow(c.state) = ret["workflow_state"]
    /\ c.current_agent = Get(ret, "current_agent", RECEPTIONIST)
    /\ c.appointment_id = Get(ret, "appointment_id", None)

\* C19: the endpoint never applies a turn's result partially: after
\* handle_message has processed a user message its ConversationContext
\* holds every field of the returned context (patient info, slots, selected
\* slot, phase, agent, appointment id) or is as it was before the turn.
C19_ResultAppliedWhollyOrNotAtAll ==
    [][ result'.called
        => \/ Reflects(ws_context', result'.ret)
           \/ ws_context' = ws_context ]_vars

\* The fields of the controller's context the endpoint is to hand back.
RoundTripped ==
    {"workflow_state", "selected_slot", "slot_selection_attempts",
     "available_slots", "patient_info"}

\* C20: the endpoint hands the controller's context back on the next turn:
\* the context it prepares has the phase, selected slot, attempt counter,
\* available slots and patient info of the last returned context, and the
\* returned phase mapped to a ConversationState and back is the same phase.
C20_ContextRoundTrips ==
    result.called
    => /\ \A key \in RoundTripped \cap DOMAIN result.ret :
             Get(prepared_context(ws_context), key, 0) = result.ret[key]
       /\ map_conversation_state_to_workflow(
              map_workflow_to_conversation_state(result.ret["workflow_state"]))
            = result.ret["workflow_state"]

\* C21: a conversation is processed one turn at a time: no two handle_message
\* executions on the conversation's context overlap, also when several
\* websocket connections are open with the conversation's id.
C21_OneTurnAtATime ==
    Cardinality({ ws \in Connections : handling[ws].pc # "idle" }) <= 1

-----------------------------------------------------------------------------
(* Claims about the phases of a conversation *)

\* The order of the phases of a booking.
PhaseOrder ==
    << START, GATHERING_INFO, FINDING_SLOTS, PRESENTING_SLOTS,
       AWAITING_SELECTION, CONFIRMING, COMPLETED >>

Ordered == { PhaseOrder[i] : i \in DOMAIN PhaseOrder }

Rank(phase) == CHOOSE i \in DOMAIN PhaseOrder : PhaseOrder[i] = phase

\* The retry loops: AWAITING_SELECTION to itself, and to PRESENTING_SLOTS.
RetryLoop(from, to) ==
    from = AWAITING_SELECTION /\ to \in {AWAITING_SELECTION, PRESENTING_SLOTS}

\* C23: the conversation has one phase at any time, and across a turn the
\* phase only moves forward in the order START, GATHERING_INFO, FINDING_SLOTS,
\* PRESENTING_SLOTS, AWAITING_SELECTION, CONFIRMING, COMPLETED, but for the
\* retry loops.  (Turns into or out of ERROR are left aside.)
C23_PhaseOnlyMovesForward ==
    [][ result'.called
        => LET from == conversation_context["workflow_state"]
               to == conversation_context'["workflow_state"]
           IN /\ to \in Ordered \cup {ERROR}
              /\ (from \in Ordered /\ to \in Ordered)
                   => (Rank(to) >= Rank(from) \/ RetryLoop(from, to)) ]_vars

\* The moves back the controller makes besides the retry loops: from
\* CONFIRMING to AWAITING_SELECTION when the patient declines the slot, and
\* to START with the answer of _create_error_state.
DeclinedOrRestarted(from, to, ret) ==
    \/ from = CONFIRMING /\ to = AWAITING_SELECTION
    \/ to = START /\ "error" \in DOMAIN ret

\* C23, amended: across a turn the phase moves forward in the order, stays,
\* takes a retry loop, goes from CONFIRMING back to AWAITING_SELECTION, or is
\* put back to START by an error answer.
C23_PhaseMovesForwardOrBackToSelection ==
    [][ result'.called
        => LET from == conversation_context["workflow_state"]
               to == conversation_context'["workflow_state"]
           IN /\ to \in Ordered \cup {ERROR}
              /\ (from \in Ordered /\ to \in Ordered)
                   => \/ Rank(to) >= Rank(from)
                      \/ RetryLoop(from, to)
                      \/ DeclinedOrRestarted(from, to, result'.ret) ]_vars

\* C23's case: a turn has taken the conversation from CONFIRMING back to
\* AWAITING_SELECTION, the confirmation agent still being the current one.
C23_Witness ==
    /\ result.called
    /\ "user_message" \in DOMAIN result.ret
    /\ result.ret["user_message"] = "no"
    /\ conversation_context["workflow_state"] = AWAITING_SELECTION
    /\ conversation_context["current_agent"] = CONFIRMATION

-----------------------------------------------------------------------------
(* Claims about the required patient fields *)

\* Name, phone and reason are present in info and none of them is null.
RequiredPresent(info) ==
    \A field \in {"patient_name", "patient_phone", "reason"} :
        field \in DOMAIN info /\ info[field] \notin {None, "", "null"}

\* The phases behind the gate.
Gated == {PRESENTING_SLOTS, AWAITING_SELECTION, CONFIRMING, COMPLETED}

C25_FailedExtractionKeepsPriorInfo ==
    [][ \A user_input \in Inputs(conversation_context), oracle \in IntakeOracles :
          ( /\ oracle.extraction.kind = "raises"
            /\ conversation_context["workflow_state"] \in {START, GATHERING_INFO}
            /\ process_user_message(user_input, oracle) )
          => LET prior == Get(conversation_context, "patient_info", EmptyDict)
             IN /\ result'.called
                /\ result'.ret["patient_info"] = prior
                /\ conversation_context'["patient_info"] = prior
                /\ result'.ret["workflow_state"] =
                      IF has_required_info(prior)
                         /\ scheduler_get_available_slots(appointments, prior, NUM_SLOTS,
                                oracle.registryRaises, oracle.errs) # << >>
                      THEN AWAITING_SELECTION
                      ELSE GATHERING_INFO ]_vars

\* C25's case: a first turn has returned with nothing merged and the
\* receptionist's reply, as it does when the extraction failed.
C25_Witness ==
    /\ result.called
    /\ result.ret["workflow_state"] = GATHERING_INFO
    /\ result.ret["patient_info"] = EmptyDict
    /\ result.ret["agent_response"] = << "(the receptionist's reply)" >>

\* The apology BaseAgent.process returns for a failed generation.
GENERATION_APOLOGY == << "I apologize, but I encountered an error. Please try again." >>

\* The context the turn would return had the generation succeeded, the
\* other collaborators answering the same.
Twin(user_input, oracle) ==
    process_message(user_input, conversation_context, appointments,
                    [oracle EXCEPT !.processRaises = FALSE]).result

\* d without its agent_response
Silenced(d) == [k \in DOMAIN d \ {"agent_response"} |-> d[k]]

\* C26: when the generation of the response text fails during a turn, the
\* response is the fixed apology sentence, and the phase, patient info, slots
\* and flags returned are those the turn would return had the generation
\* succeeded with the same extraction result.
C26_FailedGenerationApologises ==
    [][ \A user_input \in Inputs(conversation_context), oracle \in IntakeOracles :
          ( /\ oracle.processRaises
            /\ conversation_context["workflow_state"] \in {START, GATHERING_INFO}
            /\ process_user_message(user_input, oracle) )
          => /\ result'.ret["agent_response"] = GENERATION_APOLOGY
             /\ Silenced(result'.ret) = Silenced(Twin(user_input, oracle)) ]_vars

\* C26, amended: the apology takes the place of the generated text: it is the
\* response of the turns whose response would have been the generated text,
\* and the turns that go on to present slots, or report that there are none,
\* or that the extraction was unusable, respond as they would have; the rest
\* of the returned context is as it would have been.
C26_ApologyReplacesGeneratedText ==
    [][ \A user_input \in Inputs(conversation_context), oracle \in IntakeOracles :
          ( /\ oracle.processRaises
            /\ conversation_context["workflow_state"] \in {START, GATHERING_INFO}
            /\ process_user_message(user_input, oracle) )
          => \E twin \in { Twin(user_input, oracle) } :
                /\ result'.ret["agent_response"] =
                      IF twin["agent_response"] = oracle.reply
                      THEN GENERATION_APOLOGY
                      ELSE twin["agent_response"]
                /\ Silenced(result'.ret) = Silenced(twin) ]_vars

\* C26's case: a turn has returned the apology for a failed generation and
\* stays in GATHERING_INFO.
C26_Witness ==
    /\ result.called
    /\ result.ret["agent_response"] = GENERATION_APOLOGY
    /\ result.ret["workflow_state"] = GATHERING_INFO

\* C27: when the slot search of a turn fails because the store is not
\* available or the doctor registry errs, the turn ends in ERROR and not, as
\* if no slots had been found, in GATHERING_INFO.
C27_FailedSearchEndsInError ==
    [][ \A user_input \in Inputs(conversation_context), oracle \in IntakeOracles :
          ( /\ database = "none" \/ oracle.registryRaises
            /\ IntakeCompletes(oracle)
            /\ process_user_message(user_input, oracle) )
          => /\ result'.ret["workflow_state"] = ERROR
             /\ result'.ret["agent_response"] # NO_SLOTS_RESPONSE ]_vars

\* The ConversationContext whose patient fields are those of the record info.
ContextOf(info) ==
    [k \in DOMAIN NewContext |->
        IF k \in ContextInfoFields /\ k \in DOMAIN info THEN info[k] ELSE NewContext[k]]

\* C28: has_required_info is true if and only if name, phone and reason are
\* all present, non-empty and non-null (a missing key, "", a null and the
\* "null" sentinel each make it false), for the intake agent's check and for
\* the ConversationContext's, which therefore agree on every record.
C28_RequiredInfoChecksAgree ==
    mergeOut.called
    => /\ mergeOut.had_required <=> RequiredPresent(mergeIn.a)
       /\ context_has_required_info(ContextOf(mergeIn.a)) <=> RequiredPresent(mergeIn.a)
       /\ context_has_required_info(ContextOf(mergeIn.a)) <=> mergeOut.had_required

-----------------------------------------------------------------------------
(* Doctor resolution *)

\* The doctors of the collection a tier of the resolution looks among, in
\* collection order: 1 the active doctors whose name holds the stated
\* preference, 2 the active doctors of the specialization inferred from the
\* reason, 3 the active general physicians, 4 the active doctors.
Tier(n) ==
    LET pref == doctorIn.doctor_preference
        specialization == infer_specialization(lower(Spell(doctorIn.reason)))
        Named(doc) == /\ doc.is_active
                      /\ Truthy(pref)
                      /\ IsSubstring(lower(Spell(pref)), lower(Spell(doc.name)))
        OfInferred(doc) == doc.is_active /\ doc.specialization = specialization
        Generalist(doc) == doc.is_active /\ doc.specialization = GENERAL_PHYSICIAN
        OnDuty(doc) == doc.is_active
    IN CASE n = 1 -> SelectSeq(doctors, Named)
         [] n = 2 -> SelectSeq(doctors, OfInferred)
         [] n = 3 -> SelectSeq(doctors, Generalist)
         [] n = 4 -> SelectSeq(doctors, OnDuty)

\* The lookup behind each tier.
TierLookup ==
    << "by_name", "by_specialization", "general_physician", "all_doctors" >>

\* What the lookup of a tier answers: nothing when the database is not
\* connected or the query raises.
Answered(n) ==
    IF database = "none" \/ TierLookup[n] \in doctorIn.raising
    THEN << >> ELSE Tier(n)

\* The first doctor of the first tier that has one, or no doctor.
Resolution(tiers) ==
    LET filled == { n \in DOMAIN tiers : tiers[n] # << >> }
    IN IF filled = {} THEN NoDoctor
       ELSE << tiers[CHOOSE n \in filled : \A m \in filled : n <= m][1] >>

\* C29 as stated: the doctor returned is the first active doctor matching the
\* stated name if the collection has one, otherwise the first of the inferred
\* specialization, otherwise the first general physician, otherwise the first
\* active doctor, and no doctor is returned only when the collection has no
\* active doctor.
C29_StrictPrecedence ==
    doctorOut.called =>
        /\ doctorOut.doctor = Resolution([n \in 1..4 |-> Tier(n)])
        /\ doctorOut.doctor = NoDoctor => Tier(4) = << >>

\* What does hold: the precedence name, inferred specialization, general
\* physician, first active doctor over what the four lookups answer; a lookup
\* that fails answers nothing, so its tier is passed over, and no doctor is
\* returned only when the lookup of the active doctors answers nothing.
PrecedenceOverAnsweredLookups ==
    doctorOut.called =>
        /\ doctorOut.doctor = Resolution([n \in 1..4 |-> Answered(n)])
        /\ doctorOut.doctor = NoDoctor => Answered(4) = << >>

\* A stated name that matches an active doctor wins over the specialization
\* the reason points to, and the deactivated doctor of that name is skipped.
NamePreferenceWins ==
    /\ doctorOut.called
    /\ database = "connected" /\ doctorIn.raising = {}
    /\ doctorIn.doctor_preference = "verma" /\ doctorIn.reason = "skin rash"
    /\ Len(Tier(1)) = 1 /\ Len(doctors) = 5 /\ ~doctors[2].is_active
    /\ Tier(2) # << >> /\ Tier(2)[1] # Tier(1)[1]
    /\ doctorOut.doctor = << sample_doctors[3] >>

-----------------------------------------------------------------------------
(* The list get_available_slots returns *)

\* The (date, start hour) pairs of the window [start_date, start_date +
\* num_days) on weekdays, within clinic hours, at which the collection holds
\* no scheduled or confirmed appointment of the doctor.
FreeKeys(doctor_id, start_date, num_days) ==
    { key \in (start_date .. (start_date + num_days - 1))
                \X (CLINIC_OPEN_HOUR .. (CLINIC_CLOSE_HOUR - 1)) :
        /\ weekday(key[1]) < 5
        /\ ~ \E i \in DOMAIN appointments :
                /\ appointments[i].doctor_id = doctor_id
                /\ appointments[i].date = key[1]
                /\ appointments[i].time = key[2]
                /\ appointments[i].status \in {SCHEDULED, CONFIRMED} }

\* The (date, start hour) pairs a list of slots offers.
KeysOf(slots) == { << slots[i].date, slots[i].start_time >> : i \in DOMAIN slots }

\* The list is in strictly ascending (date, start time) order.
StrictlyAscending(slots) ==
    \A i, j \in DOMAIN slots :
        i < j => \/ slots[i].date < slots[j].date
                 \/ /\ slots[i].date = slots[j].date
                    /\ slots[i].start_time < slots[j].start_time

\* C30: get_available_slots(doctor, start_date, num_days) returns exactly the
\* hourly weekday slots of the window within clinic hours that have no
\* scheduled or confirmed appointment of that doctor, one hour long and for
\* that doctor, in strictly ascending (date, start time) order without
\* duplicates; when nothing is free the list is empty.
C30_ExactlyTheFreeSlotsInOrder ==
    [][ \A d \in DoctorIds, start \in {0, 1}, n \in {1, MaxNumDays}, errs \in QueryErrs :
            \/ slotsResult.returned
            \/ ~ slotsResult'.returned
            \/ ~ GetAvailableSlots(d, start, n, errs)
            \/ /\ KeysOf(slotsResult'.slots) = FreeKeys(d, start, n)
               /\ StrictlyAscending(slotsResult'.slots)
               /\ \A i \in DOMAIN slotsResult'.slots :
                     /\ slotsResult'.slots[i].doctor_id = d
                     /\ slotsResult'.slots[i].end_time = slotsResult'.slots[i].start_time + 1 ]_vars

\* What does hold: the same while the database is connected and no
\* availability lookup raises.
ExactlyTheFreeSlotsWhenStoreAnswers ==
    [][ \A d \in DoctorIds, start \in {0, 1}, n \in {1, MaxNumDays} :
            \/ slotsResult.returned
            \/ ~ slotsResult'.returned
            \/ database = "none"
            \/ ~ GetAvailableSlots(d, start, n, {})
            \/ /\ KeysOf(slotsResult'.slots) = FreeKeys(d, start, n)
               /\ StrictlyAscending(slotsResult'.slots)
               /\ \A i \in DOMAIN slotsResult'.slots :
                     /\ slotsResult'.slots[i].doctor_id = d
                     /\ slotsResult'.slots[i].end_time = slotsResult'.slots[i].start_time + 1 ]_vars

-----------------------------------------------------------------------------
(* The time-of-day filter *)

\* The start hours of the bucket a recognised preference names.
BucketHours(preferred_time) ==
    CASE Lower(preferred_time) = "morning" -> 9 .. 11
      [] Lower(preferred_time) = "afternoon" -> 12 .. 16
      [] Lower(preferred_time) = "evening" -> 17 .. 19

RecognisedPreferences == {"morning", "afternoon", "evening"}

\* The slots of the list whose start hour lies in the bucket, in the order of
\* the list; the list itself when no preference is given.
InBucketOf(slots, preferred_time) ==
    LET Chosen(slot) == slot.start_time \in BucketHours(preferred_time)
    IN IF preferred_time = None THEN slots ELSE SelectSeq(slots, Chosen)

\* C31: the time-of-day filter of find_slots_by_preference keeps, in their
\* order, exactly the slots of get_available_slots whose start hour lies in
\* the chosen bucket (morning 9-11, afternoon 12-16, evening 17-19), keeps the
\* whole list when no preference is given, and the caller is handed the first
\* NUM_SLOTS (5) of the filtered slots, the number the scheduler asks for on
\* behalf of the controller.
C31_FilterKeepsTheBucketInOrder ==
    [][ ( /\ ~ slotsResult.returned
          /\ slotsResult'.returned
          /\ "asked" \in DOMAIN slotsResult'
          /\ \/ slotsResult'.asked.preferred_time = None
             \/ Lower(slotsResult'.asked.preferred_time) \in RecognisedPreferences )
        => LET asked == slotsResult'.asked
               all_slots == get_available_slots(appointments, asked.doctor_id,
                                DoctorName(asked.doctor_id),
                                IF asked.preferred_date = -1 THEN Today ELSE asked.preferred_date,
                                FIND_NUM_DAYS, asked.errs)
           IN With(InBucketOf(all_slots, asked.preferred_time), LAMBDA kept :
                  /\ Len(slotsResult'.slots) = IF Len(kept) < NUM_SLOTS THEN Len(kept) ELSE NUM_SLOTS
                  /\ \A i \in DOMAIN slotsResult'.slots : slotsResult'.slots[i] = kept[i]) ]_vars

\* An afternoon query on a store that holds appointments came back with the
\* first five afternoon slots, none of them a morning slot.
C31_Witness ==
    /\ slotsResult.returned
    /\ "asked" \in DOMAIN slotsResult
    /\ slotsResult.asked.preferred_time = "afternoon"
    /\ appointments # << >>
    /\ Len(slotsResult.slots) = NUM_SLOTS
    /\ \A i \in DOMAIN slotsResult.slots : slotsResult.slots[i].start_time \in 12 .. 16

-----------------------------------------------------------------------------
(* Replies in CONFIRMING *)

\* The message as _finalize_node reads it.
AsRead(user_input) == strip(lower(Spell(user_input)))

CONFIRM_REPROMPT ==
    << "I didn't catch that. Please reply 'yes' to confirm or 'no' to choose a different time." >>

\* The fields of the conversation a turn can leave alone.
KeptFields == {"selected_slot", "available_slots", "patient_info", "awaiting_confirmation"}

\* C32: a turn that starts in CONFIRMING with a reply holding neither a
\* confirmation word nor a rejection word ends in CONFIRMING with the
\* re-prompt; the selected slot, the available slots, the patient info and the
\* awaiting_confirmation flag are the same in the turn's result and in the
\* caller's context as before the turn, and the appointments collection is
\* unchanged.
C32_UnrecognisedReplyKeepsConfirming ==
    [][ \A user_input \in Inputs(conversation_context), oracle \in Oracles(conversation_context) :
            \/ conversation_context["workflow_state"] # CONFIRMING
            \/ is_confirmation(AsRead(user_input))
            \/ is_rejection(AsRead(user_input))
            \/ ~ process_user_message(user_input, oracle)
            \/ /\ result'.ret["workflow_state"] = CONFIRMING
               /\ conversation_context'["workflow_state"] = CONFIRMING
               /\ result'.ret["agent_response"] = CONFIRM_REPROMPT
               /\ \A f \in KeptFields :
                     /\ result'.ret[f] = conversation_context[f]
                     /\ conversation_context'[f] = conversation_context[f]
               /\ appointments' = appointments ]_vars

\* An unrecognised reply was answered with the re-prompt while a slot was
\* selected and awaiting confirmation.
C32_Witness ==
    /\ result.called
    /\ "user_message" \in DOMAIN result.ret
    /\ result.ret["user_message"] = "hmm"
    /\ result.ret["agent_response"] = CONFIRM_REPROMPT
    /\ conversation_context["workflow_state"] = CONFIRMING
    /\ conversation_context["selected_slot"] # NoSlot
    /\ conversation_context["awaiting_confirmation"]

\* Whether the reply holds a rejection word.
Rejects(user_input) == is_rejection(AsRead(user_input))

DECLINED_RESPONSE == << "No problem! Would you like to select a different time slot?" >>

\* The rejection branch was taken only for a reply without a confirmation word.
RejectionOnlyWithoutConfirmation(user_input) ==
    result'.ret["agent_response"] = DECLINED_RESPONSE => ~ Confirms(user_input)

\* C33 as stated: a CONFIRMING turn whose reply holds both a confirmation
\* word and a rejection word runs the finalize step and an appointment is
\* created, and the rejection branch is taken only when the reply holds no
\* confirmation word.
C33_MixedReplyBooks ==
    [][ \A user_input \in Inputs(conversation_context), oracle \in Oracles(conversation_context) :
            \/ conversation_context["workflow_state"] # CONFIRMING
            \/ ~ process_user_message(user_input, oracle)
            \/ /\ (Confirms(user_input) /\ Rejects(user_input))
                    => /\ result'.ret["workflow_state"] = COMPLETED
                       /\ Len(appointments') = Len(appointments) + 1
               /\ RejectionOnlyWithoutConfirmation(user_input) ]_vars

\* C33 amended: a CONFIRMING turn whose reply holds both a confirmation word
\* and a rejection word is a confirmation: the finalize step runs, and the
\* turn ends in COMPLETED with one appointment created unless the booking
\* fails, in which case it ends in ERROR with the store unchanged; it never
\* goes back to AWAITING_SELECTION, and the rejection branch is taken only
\* when the reply holds no confirmation word.
C33_MixedReplyIsAConfirmation ==
    [][ \A user_input \in Inputs(conversation_context), oracle \in Oracles(conversation_context) :
            \/ conversation_context["workflow_state"] # CONFIRMING
            \/ ~ process_user_message(user_input, oracle)
            \/ /\ (Confirms(user_input) /\ Rejects(user_input))
                    => IF BookingFails(oracle)
                       THEN /\ result'.ret["workflow_state"] = ERROR
                            /\ appointments' = appointments
                       ELSE /\ result'.ret["workflow_state"] = COMPLETED
                            /\ Len(appointments') = Len(appointments) + 1
                            /\ SlotTaken(conversation_context["selected_slot"][1])'
               /\ RejectionOnlyWithoutConfirmation(user_input) ]_vars

\* A reply holding the rejection words "no" and "n" and the confirmation word
\* "y" has booked the selected slot.
C33_Witness ==
    /\ result.called
    /\ "user_message" \in DOMAIN result.ret
    /\ result.ret["user_message"] = "no way"
    /\ Rejects("no way") /\ Confirms("no way")
    /\ result.ret["workflow_state"] = COMPLETED
    /\ "appointment_id" \in DOMAIN result.ret
    /\ appointments # << >>

-----------------------------------------------------------------------------
(* Slots for every recognised time of day *)

\* C34: a find_slots_by_preference query with a recognised time-of-day
\* preference (morning, afternoon, evening), for a doctor without any
\* appointment, on a connected store that answers every lookup, offers at
\* least one slot of its 14-day window, so that a patient with complete info
\* and such a preference is presented slots instead of being sent back to
\* GATHERING_INFO.
C34_RecognisedPreferenceFindsASlot ==
    [][ ( /\ ~ slotsResult.returned
          /\ slotsResult'.returned
          /\ "asked" \in DOMAIN slotsResult'
          /\ slotsResult'.asked.preferred_time # None
          /\ Lower(slotsResult'.asked.preferred_time) \in RecognisedPreferences
          /\ database = "connected"
          /\ slotsResult'.asked.errs = {}
          /\ \A i \in DOMAIN appointments :
                appointments[i].doctor_id # slotsResult'.asked.doctor_id )
        => slotsResult'.slots # << >> ]_vars

\* What does hold: the same for the morning and the afternoon.
DaytimePreferenceFindsASlot ==
    [][ ( /\ ~ slotsResult.returned
          /\ slotsResult'.returned
          /\ "asked" \in DOMAIN slotsResult'
          /\ slotsResult'.asked.preferred_time # None
          /\ Lower(slotsResult'.asked.preferred_time) \in {"morning", "afternoon"}
          /\ database = "connected"
          /\ slotsResult'.asked.errs = {}
          /\ \A i \in DOMAIN appointments :
                appointments[i].doctor_id # slotsResult'.asked.doctor_id )
        => slotsResult'.slots # << >> ]_vars

-----------------------------------------------------------------------------
(* A cooperative conversation completes *)

\* The conversation has reached COMPLETED for its caller.
CompletedForCaller ==
    \/ conversation_context["workflow_state"] = COMPLETED
    \/ ws_context.state = COMPLETED

\* A step creates at most one appointment, and only in the turn that completes.
OneAppointmentOnCompletion ==
    \/ appointments' = appointments
    \/ /\ Len(appointments') = Len(appointments) + 1
       /\ result'.ret["workflow_state"] = COMPLETED
       /\ CompletedForCaller'

\* C35: with working collaborators and a cooperative user, a conversation
\* whose caller (the interactive session, the websocket endpoint) feeds each
\* returned context into the next turn eventually reaches COMPLETED, and
\* exactly one appointment is created on the way.
C35_CooperativeConversationCompletes ==
    /\ <>CompletedForCaller
    /\ [][OneAppointmentOnCompletion]_vars

\* What does hold: through the interactive session the conversation completes.
SessionConversationCompletes ==
    (conversation_context # init_context) ~> (conversation_context["workflow_state"] = COMPLETED)

-----------------------------------------------------------------------------
(* The slot under confirmation *)

\* The appointment document is for the doctor, date and time of the slot.
BooksSlot(doc, slot) ==
    /\ doc.doctor_id = slot.doctor_id
    /\ doc.date = date_of(fromisoformat(slot.date))
    /\ doc.time = time_of(fromisoformat(slot.time))

\* C36: whenever the conversation is in CONFIRMING a slot is selected, it is
\* one of the available slots as last presented, and awaiting_confirmation
\* is true; and the appointment the confirming turn creates has the doctor,
\* date and time of exactly that slot.
C36_ConfirmingHoldsThePresentedSlot ==
    /\ [](conversation_context["workflow_state"] = CONFIRMING
            => /\ conversation_context["selected_slot"] # NoSlot
               /\ \E i \in DOMAIN conversation_context["available_slots"] :
                     conversation_context["available_slots"][i]
                        = conversation_context["selected_slot"][1]
               /\ conversation_context["awaiting_confirmation"])
    /\ [][ ( /\ conversation_context["workflow_state"] = CONFIRMING
             /\ conversation_context'["workflow_state"] = COMPLETED )
           => /\ Len(appointments') = Len(appointments) + 1
              /\ BooksSlot(appointments'[Len(appointments')],
                           conversation_context["selected_slot"][1])
              /\ appointments'[Len(appointments')].status = SCHEDULED ]_vars

\* The second of the presented slots was selected and confirmed, and the
\* appointment stored last is for it.
C36_Witness ==
    /\ conversation_context["workflow_state"] = COMPLETED
    /\ conversation_context["selected_slot"] # NoSlot
    /\ Len(conversation_context["available_slots"]) >= 2
    /\ conversation_context["available_slots"][2] = conversation_context["selected_slot"][1]
    /\ appointments # << >>
    /\ BooksSlot(appointments[Len(appointments)], conversation_context["selected_slot"][1])

-----------------------------------------------------------------------------
(* The slot-selection attempt counter *)

\* The counter the caller's context holds.
Attempts(context) == Get(context, "slot_selection_attempts", 0)

\* C37: the slot-selection attempt counter counts consecutive failures only:
\* it stays within 0..MAX_SLOT_SELECTION_ATTEMPTS, a turn that selects a slot
\* (AWAITING_SELECTION to CONFIRMING) puts it back to 0, a failed selection
\* adds one, and the conversation leaves AWAITING_SELECTION for
\* PRESENTING_SLOTS only in a failed selection that is the third in a row.
C37_AttemptsCountConsecutiveFailures ==
    /\ [](Attempts(conversation_context) \in 0 .. MAX_SLOT_SELECTION_ATTEMPTS)
    /\ [][ ( /\ conversation_context["workflow_state"] = AWAITING_SELECTION
             /\ result'.called /\ result' # result )
           => /\ conversation_context'["workflow_state"] = CONFIRMING
                   => Attempts(conversation_context') = 0
              /\ conversation_context'["workflow_state"] = AWAITING_SELECTION
                   => Attempts(conversation_context') = Attempts(conversation_context) + 1
              /\ conversation_context'["workflow_state"] = PRESENTING_SLOTS
                   => /\ Attempts(conversation_context) = MAX_SLOT_SELECTION_ATTEMPTS - 1
                      /\ Attempts(conversation_context') = MAX_SLOT_SELECTION_ATTEMPTS ]_vars

\* What does hold: the same without the reset by a valid selection.
AttemptsCountFailuresSincePresented ==
    /\ [](Attempts(conversation_context) \in 0 .. MAX_SLOT_SELECTION_ATTEMPTS)
    /\ [][ ( /\ conversation_context["workflow_state"] = AWAITING_SELECTION
             /\ result'.called /\ result' # result )
           => /\ conversation_context'["workflow_state"] = CONFIRMING
                   => Attempts(conversation_context') = Attempts(conversation_context)
              /\ conversation_context'["workflow_state"] = AWAITING_SELECTION
                   => Attempts(conversation_context') = Attempts(conversation_context) + 1
              /\ conversation_context'["workflow_state"] = PRESENTING_SLOTS
                   => /\ Attempts(conversation_context) = MAX_SLOT_SELECTION_ATTEMPTS - 1
                      /\ Attempts(conversation_context') = MAX_SLOT_SELECTION_ATTEMPTS ]_vars

-----------------------------------------------------------------------------
(* Cancelling frees the slot *)

\* The collection holds a cancelled appointment at the key and no scheduled
\* or confirmed one.
FreedByCancelling(docs, key) ==
    /\ \E i \in DOMAIN docs :
          SlotKey(docs[i]) = << key.doctor_id, key.date, key.time >>
          /\ docs[i].status = CANCELLED
    /\ ~ \E i \in DOMAIN docs :
          SlotKey(docs[i]) = << key.doctor_id, key.date, key.time >>
          /\ Active(docs[i])

\* C38: cancel_appointment leaves the record stored with status cancelled and
\* every other record as it was; and while a key holds a cancelled appointment
\* and no scheduled or confirmed one, an availability query whose window
\* contains the key returns its slot (a weekday slot within clinic hours, as
\* it was returned before the booking), and a create_appointment for it passes
\* the availability check and stores a new scheduled appointment.
C38_CancellingFreesTheSlot ==
    [][ /\ \A id \in 1 .. MaxAppointments :
              (Quiet /\ cancel_appointment(id))
              => /\ Len(appointments') = Len(appointments)
                 /\ appointments' = [appointments EXCEPT ![id].status = CANCELLED]
        /\ \A key \in BookKeys :
              FreedByCancelling(appointments, key)
              => /\ \A start \in {0, 1}, n \in {1, MaxNumDays} :
                       ( /\ slotsResult'.returned /\ ~ slotsResult.returned
                         /\ key.date \in start .. (start + n - 1)
                         /\ weekday(key.date) < 5
                         /\ key.time \in CLINIC_OPEN_HOUR .. (CLINIC_CLOSE_HOUR - 1)
                         /\ GetAvailableSlots(key.doctor_id, start, n, {}) )
                       => << key.date, key.time >> \in KeysOf(slotsResult'.slots)
                 /\ \A p \in Callers :
                       /\ (Quiet /\ create_appointment_check(p, key, FALSE))
                            => callers'[p].pc = "checked"
                       /\ ( /\ callers[p].pc = "checked" /\ callers[p].key = key
                            /\ create_appointment_insert(p, FALSE) )
                            => /\ callers'[p].success
                               /\ Len(appointments') = Len(appointments) + 1
                               /\ appointments'[Len(appointments')]
                                     = appointment_doc(key.doctor_id, key.date, key.time)
                               /\ \E i \in DOMAIN appointments' :
                                     SlotKey(appointments'[i]) = SlotKey(appointments'[Len(appointments')])
                                     /\ appointments'[i].status = CANCELLED ]_vars

\* A slot was booked, the appointment cancelled, and the slot booked again:
\* the cancelled record is still stored next to the new scheduled one.
C38_Witness ==
    /\ Len(appointments) = 2
    /\ SlotKey(appointments[1]) = SlotKey(appointments[2])
    /\ appointments[1].status = CANCELLED
    /\ appointments[2].status = SCHEDULED

-----------------------------------------------------------------------------
(* Which turns write to the appointment store *)

\* The reply, as the finalize step reads it, holds one of the confirmation
\* keywords.
IsAConfirmation(user_input) ==
    \E word \in {"yes", "confirm", "ok", "sure", "correct", "right", "yep", "yeah", "y"} :
        IsSubstring(Spell(word), AsRead(user_input))

\* C39: a turn of the controller changes the appointments collection only
\* when it starts in CONFIRMING and its reply is a confirmation, and then by
\* adding one appointment and ending in COMPLETED; turns starting in START,
\* GATHERING_INFO, AWAITING_SELECTION, COMPLETED or ERROR, and CONFIRMING turns
\* with a rejection or an unrecognised reply, leave it unchanged; and a turn
\* that brings the conversation to COMPLETED has created exactly one
\* appointment.
C39_OnlyAConfirmationWrites ==
    [][ \A user_input \in Inputs(conversation_context), oracle \in Oracles(conversation_context) :
            \/ /\ appointments' = appointments
               /\ \/ conversation_context["workflow_state"] = COMPLETED
                  \/ conversation_context'["workflow_state"] # COMPLETED
            \/ ~ process_user_message(user_input, oracle)
            \/ /\ appointments' # appointments
                    => /\ conversation_context["workflow_state"] = CONFIRMING
                       /\ IsAConfirmation(user_input)
                       /\ Len(appointments') = Len(appointments) + 1
                       /\ SubSeq(appointments', 1, Len(appointments)) = appointments
                       /\ conversation_context'["workflow_state"] = COMPLETED
               /\ ( /\ conversation_context["workflow_state"] # COMPLETED
                    /\ conversation_context'["workflow_state"] = COMPLETED )
                    => /\ conversation_context["workflow_state"] = CONFIRMING
                       /\ Len(appointments') = Len(appointments) + 1 ]_vars

\* A conversation has gone through every phase to COMPLETED, and the store
\* holds the one appointment its confirming turn created.
C39_Witness ==
    /\ result.called
    /\ "user_message" \in DOMAIN result.ret
    /\ IsAConfirmation(result.ret["user_message"])
    /\ conversation_context["workflow_state"] = COMPLETED
    /\ Len(appointments) = 1
    /\ BooksSlot(appointments[1], conversation_context["selected_slot"][1])

-----------------------------------------------------------------------------
(* Resetting a websocket conversation *)

\* C40: after a reset_conversation message the ConversationContext is that
\* of a freshly created conversation: state INITIATED, and no patient info,
\* preferences, proposed slots, selected slot or appointment id left over.
C40_ResetGivesAFreshContext ==
    [][ handle_reset_conversation => ws_context' = NewContext ]_vars

\* What does hold: the reset clears the state, the agent, the name, the
\* phone and the reason, and leaves every other field as it was.
ResetClearsStateNamePhoneReason ==
    [][ handle_reset_conversation
        => \A f \in DOMAIN ws_context :
              ws_context'[f] = IF f \in {"state", "current_agent", "patient_name",
                                         "patient_phone", "reason"}
                               THEN NewContext[f] ELSE ws_context[f] ]_vars

====
